---------------------------- MODULE Spec2Model ----------------------------
(***************************************************************************)
(* Model of the video editor's timeline evaluator (src/types/index.ts:     *)
(* lerp, getInterpolatedZoom, getExportInterpolatedZoom) and of the export *)
(* pipeline of ExportModal.tsx (exportVideo and the handlers around it),   *)
(* and of the module that preloads the encoder (preloadFfmpeg and          *)
(* terminateFfmpeg).                                                       *)
(*                                                                         *)
(* Numbers.  JavaScript numbers are modelled as exact rationals            *)
(* [n |-> numerator, d |-> denominator], d > 0, in lowest terms, so that   *)
(* equality of two computed values is record equality.  Times are seconds. *)
(* Number.MAX_SAFE_INTEGER, which the code only stores and never computes  *)
(* with, is the marker MAX_SAFE_INTEGER below.                             *)
(***************************************************************************)
EXTENDS Integers, Sequences, FiniteSets, TLC

(***************************************************************************)
(* Bounds of the model.                                                    *)
(***************************************************************************)
\* keyframe start/end times are multiples of 1/TimeDen second
TimeDen == 2
\* latest keyframe end, in units of 1/TimeDen second
MaxTime == 4
\* longest keyframe list explored
MaxKeyframes == 2

(***************************************************************************)
(* Rational arithmetic.                                                    *)
(***************************************************************************)
Abs(i) == IF i < 0 THEN -i ELSE i

RECURSIVE GCD(_, _)
GCD(a, b) == IF b = 0 THEN a ELSE GCD(b, a % b)

Rat(num, den) ==
  LET g == GCD(Abs(num), den)
  IN  [n |-> num \div g, d |-> den \div g]

Int2Rat(i) == [n |-> i, d |-> 1]

RAdd(a, b) == Rat(a.n * b.d + b.n * a.d, a.d * b.d)
RSub(a, b) == Rat(a.n * b.d - b.n * a.d, a.d * b.d)
RMul(a, b) == Rat(a.n * b.n, a.d * b.d)
RLt(a, b)  == a.n * b.d < b.n * a.d
RLe(a, b)  == a.n * b.d <= b.n * a.d
RMin(a, b) == IF RLe(a, b) THEN a ELSE b
RMax(a, b) == IF RLe(a, b) THEN b ELSE a
RAbs(a) == IF a.n < 0 THEN [n |-> -a.n, d |-> a.d] ELSE a

\* a / b as JavaScript computes it for a > 0 or b # 0: a positive number
\* divided by zero is +Infinity, which every caller then clamps to 1.
PlusInfinity == [n |-> 1, d |-> 0]
RDiv(a, b) ==
  IF b.n = 0 THEN PlusInfinity
  ELSE IF b.n > 0 THEN Rat(a.n * b.d, a.d * b.n)
  ELSE Rat(-(a.n * b.d), a.d * (-b.n))

\* the progress used as it is, without the clamp
Clamp01_Unclamped(p) == p

\* Math.max(0, Math.min(1, progress))
Clamp01(p) ==
  IF p = PlusInfinity THEN Int2Rat(1)
  ELSE RMax(Int2Rat(0), RMin(Int2Rat(1), p))

\* Math.floor of a non-negative rational
RFloor(a) == a.n \div a.d

(***************************************************************************)
(* src/types/index.ts                                                      *)
(***************************************************************************)
MAX_SAFE_INTEGER == [n |-> 1, d |-> 0]

\* const transitionDuration = 0.5 (seconds), as a rational
transitionDuration == [n |-> 1, d |-> 2]

lerp(a, b, t) == RAdd(a, RMul(RSub(b, a), t))

\* the easing of the lerp in the other revision of the types file:
\* const easedT = t3 * 4 + t2 * (-6) + t * 4
easedT(t) ==
  LET t2 == RMul(t, t)
      t3 == RMul(t2, t)
  IN  RAdd(RAdd(RMul(t3, Int2Rat(4)), RMul(t2, Int2Rat(-6))), RMul(t, Int2Rat(4)))

\* that revision's lerp: return a + (b - a) * easedT
lerpCubic(a, b, t) == RAdd(a, RMul(RSub(b, a), easedT(t)))

\* the object literal { id: 'default', ..., x: 50, y: 50, scale: 1.0 }
DefaultZoom(st, en) ==
  [id |-> <<"default">>, startTime |-> st, endTime |-> en,
   x |-> Int2Rat(50), y |-> Int2Rat(50), scale |-> Int2Rat(1),
   transition |-> "smooth"]

\* [...zooms].sort((a, b) => a.startTime - b.startTime): a stable sort of a copy
RECURSIVE SortByStart(_)
SortByStart(zooms) ==
  IF Len(zooms) <= 1 THEN zooms
  ELSE LET rest == SortByStart(Tail(zooms))
           z == Head(zooms)
           \* z was first in the input: it stays before the elements it ties with
           before == SelectSeq(rest, LAMBDA w : RLt(w.startTime, z.startTime))
           after == SelectSeq(rest, LAMBDA w : ~RLt(w.startTime, z.startTime))
       IN  before \o <<z>> \o after

\* the in-range branch of an earlier revision: ease in and out inside the
\* keyframe's own range over min(1.2, duration / 2.5) seconds
ActiveZoom_Eased(time, currentZoom) ==
  LET zoomDuration == RSub(currentZoom.endTime, currentZoom.startTime)
      td == RMin(Rat(6, 5), RDiv(zoomDuration, Rat(5, 2)))
      tin == RDiv(RSub(time, currentZoom.startTime), td)
      tout == RDiv(RSub(currentZoom.endTime, time), td)
      blend(t) == [currentZoom EXCEPT !.x = lerp(Int2Rat(50), currentZoom.x, t),
                                      !.y = lerp(Int2Rat(50), currentZoom.y, t),
                                      !.scale = lerp(Int2Rat(1), currentZoom.scale, t)]
  IN  IF RLt(time, RAdd(currentZoom.startTime, td)) THEN blend(Clamp01(tin))
      ELSE IF RLt(RSub(currentZoom.endTime, td), time) THEN blend(Clamp01(tout))
      ELSE currentZoom

\* "If we're within this zoom's time range, return it exactly": return currentZoom
ActiveZoom(time, currentZoom) == currentZoom

\* the for loop of getInterpolatedZoom, from index i (1-based) on
RECURSIVE ZoomLoop(_, _, _)
ZoomLoop(i, time, sorted) ==
  IF i > Len(sorted) THEN DefaultZoom(Int2Rat(0), MAX_SAFE_INTEGER)
  ELSE
    LET currentZoom == sorted[i]
        hasNext == i + 1 <= Len(sorted)
        nextZoom == sorted[i + 1]
        inZone == /\ RLt(currentZoom.endTime, time)
                  /\ RLe(time, RAdd(currentZoom.endTime, transitionDuration))
    IN
    IF RLe(currentZoom.startTime, time) /\ RLe(time, currentZoom.endTime)
    THEN ActiveZoom(time, currentZoom)
    ELSE IF inZone /\ hasNext
              /\ RLt(time, RSub(nextZoom.startTime, transitionDuration))
    THEN LET progress == RDiv(RSub(time, currentZoom.endTime), transitionDuration)
             t == Clamp01(progress)
         IN  [id |-> <<"transition-from">> \o currentZoom.id,
              startTime |-> currentZoom.endTime,
              endTime |-> RAdd(currentZoom.endTime, transitionDuration),
              x |-> lerp(currentZoom.x, Int2Rat(50), t),
              y |-> lerp(currentZoom.y, Int2Rat(50), t),
              scale |-> lerp(currentZoom.scale, Int2Rat(1), t),
              transition |-> currentZoom.transition]
    ELSE IF inZone /\ hasNext
    THEN LET totalTransitionTime == RSub(nextZoom.startTime, currentZoom.endTime)
             progress == RDiv(RSub(time, currentZoom.endTime), totalTransitionTime)
             t == Clamp01(progress)
         IN  [id |-> <<"transition">> \o currentZoom.id \o <<"to">> \o nextZoom.id,
              startTime |-> currentZoom.endTime,
              endTime |-> nextZoom.startTime,
              x |-> lerp(currentZoom.x, nextZoom.x, t),
              y |-> lerp(currentZoom.y, nextZoom.y, t),
              scale |-> lerp(currentZoom.scale, nextZoom.scale, t),
              transition |-> nextZoom.transition]
    ELSE ZoomLoop(i + 1, time, sorted)

\* getInterpolatedZoom with the copy before the sort left out: Array.prototype.sort
\* sorts in place, so the caller's array is the sorted one afterwards
SortedCopy_InPlace(zooms) == [sorted |-> SortByStart(zooms), zooms |-> SortByStart(zooms)]

\* const sorted = [...zooms].sort(...): the sorted copy, and the caller's array after it
SortedCopy(zooms) == [sorted |-> SortByStart(zooms), zooms |-> zooms]

\* the default state with the frame origin in place of its centre
EmptyZoom_Origin(time, zooms) ==
  [id |-> <<"default">>, startTime |-> Int2Rat(0), endTime |-> MAX_SAFE_INTEGER,
   x |-> Int2Rat(0), y |-> Int2Rat(0), scale |-> Int2Rat(1), transition |-> "smooth"]

\* if (!zooms.length) return { id: 'default', ... }
EmptyZoom(time, zooms) == DefaultZoom(Int2Rat(0), MAX_SAFE_INTEGER)

getInterpolatedZoom(time, zooms) ==
  IF Len(zooms) = 0 THEN EmptyZoom(time, zooms)
  ELSE
    LET sorted == SortedCopy(zooms).sorted
        first == sorted[1]
        lastZoom == sorted[Len(sorted)]
    IN
    IF RLt(time, first.startTime)
    THEN \* before the first zoom
         IF RLe(RSub(first.startTime, transitionDuration), time)
         THEN LET progress == RDiv(RSub(time, RSub(first.startTime, transitionDuration)),
                                   transitionDuration)
                  t == Clamp01(progress)
              IN  [id |-> <<"transition-to">> \o first.id,
                   startTime |-> RSub(first.startTime, transitionDuration),
                   endTime |-> first.startTime,
                   x |-> lerp(Int2Rat(50), first.x, t),
                   y |-> lerp(Int2Rat(50), first.y, t),
                   scale |-> lerp(Int2Rat(1), first.scale, t),
                   transition |-> first.transition]
         ELSE DefaultZoom(Int2Rat(0), first.startTime)
    ELSE IF RLt(lastZoom.endTime, time)
    THEN \* after the last zoom
         IF RLe(time, RAdd(lastZoom.endTime, transitionDuration))
         THEN LET progress == RDiv(RSub(time, lastZoom.endTime), transitionDuration)
                  t == Clamp01(progress)
              IN  [id |-> <<"transition-from">> \o lastZoom.id,
                   startTime |-> lastZoom.endTime,
                   endTime |-> RAdd(lastZoom.endTime, transitionDuration),
                   x |-> lerp(lastZoom.x, Int2Rat(50), t),
                   y |-> lerp(lastZoom.y, Int2Rat(50), t),
                   scale |-> lerp(lastZoom.scale, Int2Rat(1), t),
                   transition |-> lastZoom.transition]
         ELSE DefaultZoom(RAdd(lastZoom.endTime, transitionDuration), MAX_SAFE_INTEGER)
    ELSE ZoomLoop(1, time, sorted)

\* getExportInterpolatedZoom of an earlier revision: the preview's value, smoothed
\* again inside the keyframe's range
getExportInterpolatedZoom_Smoothed(time, zooms) ==
  LET activeZoom == getInterpolatedZoom(time, zooms)
  IN  IF activeZoom.id = <<"default">> \/ activeZoom.transition = "instant"
      THEN activeZoom
      ELSE ActiveZoom_Eased(time, activeZoom)

\* return getInterpolatedZoom(time, zooms)
getExportInterpolatedZoom(time, zooms) == getInterpolatedZoom(time, zooms)

(***************************************************************************)
(* src/components/ExportModal.tsx: the per-sample precomputation           *)
(***************************************************************************)
\* sortedZooms = [...zoomEffects].sort(...); getInterpolatedZoom(time, sortedZooms)
FrameZoom(time, zooms) == getInterpolatedZoom(time, SortByStart(zooms))

(***************************************************************************)
(* Inputs of the evaluator                                                 *)
(***************************************************************************)
\* authored targets: x, y in [0,100], scale in [1,5], transition kind
Palette ==
  << [x |-> Int2Rat(80), y |-> Int2Rat(20), scale |-> Int2Rat(2), transition |-> "smooth"],
     [x |-> Int2Rat(20), y |-> Int2Rat(70), scale |-> Int2Rat(3), transition |-> "smooth"],
     [x |-> Int2Rat(60), y |-> Int2Rat(40), scale |-> Rat(3, 2), transition |-> "instant"] >>

\* the keyframes an author can add as the idx-th one (startTime < endTime); the
\* idx-th keyframe takes the (idx + rot)-th target of the palette
KeyframeChoices(idx, rot) ==
  LET p == Palette[((idx + rot) % Len(Palette)) + 1]
  IN  { [id |-> <<ToString(idx)>>, startTime |-> Rat(se[1], TimeDen),
         endTime |-> Rat(se[2], TimeDen),
         x |-> p.x, y |-> p.y, scale |-> p.scale, transition |-> p.transition] :
        se \in { pr \in (0..MaxTime) \X (0..MaxTime) : pr[1] < pr[2] } }

RECURSIVE KeyframeListsOf(_, _)
KeyframeListsOf(len, rot) ==
  IF len = 0 THEN {<<>>}
  ELSE LET shorter == KeyframeListsOf(len - 1, rot)
       IN  shorter \cup { Append(l, k) : l \in { m \in shorter : Len(m) = len - 1 },
                                         k \in KeyframeChoices(len, rot) }

KeyframeLists(len) == UNION { KeyframeListsOf(len, rot) : rot \in 0..(Len(Palette) - 1) }

\* evaluation times: every half grid step from just before the earliest possible
\* blend-in (transitionDuration before time 0) to just after the latest possible
\* blend-out
EvalTimes == { Rat(n, 2 * TimeDen) : n \in (-(TimeDen + 1))..(2 * MaxTime + TimeDen + 1) }

XYS(z) == <<z.x, z.y, z.scale>>

\* scenario times are multiples of 1/ScenarioTimeDen second, from 0 to ScenarioEnd
ScenarioTimeDen == 8
ScenarioEnd == 11

Keyframe(id, startTime, endTime, target) ==
  [id |-> <<id>>, startTime |-> startTime, endTime |-> endTime,
   x |-> target.x, y |-> target.y, scale |-> target.scale, transition |-> target.transition]

\* one smooth keyframe from 2 s to 5 s with target (80, 20, 2)
ScenarioA == << Keyframe("1", Int2Rat(2), Int2Rat(5), Palette[1]) >>

\* two keyframes with a gap of 0.5 s, of 1 s (twice the transition duration) and
\* of 2 s between them
ScenarioB == << Keyframe("1", Int2Rat(1), Int2Rat(2), Palette[1]),
                Keyframe("2", Rat(5, 2), Int2Rat(4), Palette[2]) >>
ScenarioGap1 == << Keyframe("1", Int2Rat(1), Int2Rat(2), Palette[1]),
                   Keyframe("2", Int2Rat(3), Int2Rat(4), Palette[2]) >>
ScenarioGap2 == << Keyframe("1", Int2Rat(1), Int2Rat(2), Palette[1]),
                   Keyframe("2", Int2Rat(4), Int2Rat(5), Palette[2]) >>

\* three keyframes that overlap: from 1 s to 1.5 s only the second and the third
\* cover the time, and the first has ended less than 0.5 s before
ScenarioOverlap == << Keyframe("1", Rat(1, 2), Int2Rat(1), Palette[1]),
                      Keyframe("2", Rat(3, 4), Int2Rat(2), Palette[2]),
                      Keyframe("3", Int2Rat(1), Int2Rat(2), Palette[3]) >>

ScenarioLists == { ScenarioA, ScenarioB, ScenarioGap1, ScenarioGap2, ScenarioOverlap }

ScenarioTimes == { Rat(n, ScenarioTimeDen) : n \in 0..(ScenarioEnd * ScenarioTimeDen) }

NoZoom == DefaultZoom(Int2Rat(0), MAX_SAFE_INTEGER)

(***************************************************************************)
(* src/components/ExportModal.tsx: constants and pure parts of exportVideo *)
(***************************************************************************)
\* Math.min(duration, 300)
DurationCeiling == 300
\* Math.min(exportSettings.fps, 30)
ProcessingFpsCap == 30
\* const batchSize = 15
batchSize == 15
\* const blobBatchSize = 15
blobBatchSize == 15
\* if (i > 0 && i % 10 === 0)
WriteReportEvery == 10
\* progress: prev.progress + 2
WriteReportStep == 2

\* Math.round of a non-negative rational (halves round up)
RRound(a) == (2 * a.n + a.d) \div (2 * a.d)

\* the sampling rate exportVideo would use if it sampled at the selected rate
processingFps_Selected(fps) == fps

\* const processingFps = Math.min(exportSettings.fps, 30)
processingFps(fps) == IF fps <= ProcessingFpsCap THEN fps ELSE ProcessingFpsCap

\* const maxDuration = Math.min(duration, 300)
maxDuration(dur) == RMin(dur, Int2Rat(DurationCeiling))

\* const totalFrames = Math.floor(maxDuration * processingFps)
totalFramesOf(dur, fps) == RFloor(RMul(maxDuration(dur), Int2Rat(processingFps(fps))))

\* const time = j * frameInterval, with frameInterval = 1 / processingFps
SampleTime(j, fps) == Rat(j, processingFps(fps))

\* progress: Math.round((i / totalFrames) * 50)
CaptureProgress(i, total) == RRound(RMul(Rat(i, total), Int2Rat(50)))

\* the audio input is never written
NeedsAudio_Never(settings) == FALSE

\* if (exportSettings.includeAudio) { ... writeFile(`audio.${audioExt}`, audioData) }
NeedsAudio(settings) == settings.includeAudio

\* the table with one crf for every preset
qualityMap_OneCrf ==
  [q \in {"720p", "1080p", "1440p", "2160p"} |->
     CASE q = "720p"  -> [height |-> 720,  crf |-> 25]
       [] q = "1080p" -> [height |-> 1080, crf |-> 25]
       [] q = "1440p" -> [height |-> 1440, crf |-> 25]
       [] q = "2160p" -> [height |-> 2160, crf |-> 25]]

\* qualityMap: preset -> scale height and crf
qualityMap ==
  [q \in {"720p", "1080p", "1440p", "2160p"} |->
     CASE q = "720p"  -> [height |-> 720,  crf |-> 26]
       [] q = "1080p" -> [height |-> 1080, crf |-> 25]
       [] q = "1440p" -> [height |-> 1440, crf |-> 24]
       [] q = "2160p" -> [height |-> 2160, crf |-> 23]]

\* ffmpegCommand: the parts of the argument vector that vary
ffmpegCommand(settings) ==
  [framerate |-> settings.fps,
   audioInput |-> settings.includeAudio,
   height |-> qualityMap[settings.quality].height,
   crf |-> qualityMap[settings.quality].crf]

(***************************************************************************)
(* src/types/index.ts, VideoPlayer: captureFrame as a function of the      *)
(* video element and of its two arguments                                  *)
(***************************************************************************)
\* const maxWidth = 1920
maxWidth == 1920
\* const maxHeight = 1080
maxHeight == 1080

Min(a, b) == IF a <= b THEN a ELSE b

\* frameCanvas.width, frameCanvas.height for a videoWidth x videoHeight source
CanvasSize(videoWidth, videoHeight) ==
  LET videoAspectRatio == Rat(videoWidth, videoHeight)
      canvasWidth == Min(videoWidth, maxWidth)
      canvasHeight == Min(videoHeight, maxHeight)
  IN  IF Rat(canvasWidth, canvasHeight) # videoAspectRatio
      THEN IF RLe(RDiv(Int2Rat(canvasWidth), videoAspectRatio), Int2Rat(maxHeight))
           THEN [width |-> canvasWidth,
                 height |-> RRound(RDiv(Int2Rat(canvasWidth), videoAspectRatio))]
           ELSE [width |-> RRound(RMul(Int2Rat(canvasHeight), videoAspectRatio)),
                 height |-> canvasHeight]
      ELSE [width |-> canvasWidth, height |-> canvasHeight]

\* a canvas transform p |-> scale * p + (dx, dy)
Transform(scale, dx, dy) == [scale |-> scale, dx |-> dx, dy |-> dy]

IdentityTransform == Transform(Int2Rat(1), Int2Rat(0), Int2Rat(0))

\* the zoom transform without the pivot offsets: scaling about the canvas centre
ZoomTransform_AboutCentre(zoom, width, height) ==
  Transform(zoom.scale,
            RSub(Rat(width, 2), RMul(zoom.scale, Rat(width, 2))),
            RSub(Rat(height, 2), RMul(zoom.scale, Rat(height, 2))))

\* translate(centerX + offsetX, centerY + offsetY); scale(zoom.scale, zoom.scale);
\* translate(-centerX, -centerY) on a width x height canvas
ZoomTransform(zoom, width, height) ==
  LET centerX == Rat(width, 2)
      centerY == Rat(height, 2)
      normalizedX == RDiv(zoom.x, Int2Rat(100))
      normalizedY == RDiv(zoom.y, Int2Rat(100))
      offsetX == RMul(RMul(RSub(Rat(1, 2), normalizedX), Int2Rat(width)),
                      RSub(zoom.scale, Int2Rat(1)))
      offsetY == RMul(RMul(RSub(Rat(1, 2), normalizedY), Int2Rat(height)),
                      RSub(zoom.scale, Int2Rat(1)))
  IN  Transform(zoom.scale,
                RSub(RAdd(centerX, offsetX), RMul(zoom.scale, centerX)),
                RSub(RAdd(centerY, offsetY), RMul(zoom.scale, centerY)))

\* Number.prototype.toFixed(3), read back as a number: the nearest multiple of
\* 1/1000, halves away from zero
ToFixed3(a) ==
  IF a.n < 0 THEN Rat(-RRound(RMul(RAbs(a), Int2Rat(1000))), 1000)
  ELSE Rat(RRound(RMul(a, Int2Rat(1000))), 1000)

\* the preview's effect on [currentZoom]: the style
\* transform: scale(s) translate(offsetX%, offsetY%) with transform-origin
\* center center, as the map it is on a width x height wrapper.  A percentage
\* in translate() is a fraction of the element's own size, and the translation
\* is applied before the scaling.
PreviewTransform(currentZoom, width, height) ==
  LET offsetX == RMul(RSub(Int2Rat(50), currentZoom.x), RSub(currentZoom.scale, Int2Rat(1)))
      offsetY == RMul(RSub(Int2Rat(50), currentZoom.y), RSub(currentZoom.scale, Int2Rat(1)))
      scale == ToFixed3(currentZoom.scale)
      translateX == RMul(RDiv(ToFixed3(offsetX), Int2Rat(100)), Int2Rat(width))
      translateY == RMul(RDiv(ToFixed3(offsetY), Int2Rat(100)), Int2Rat(height))
      centerX == Rat(width, 2)
      centerY == Rat(height, 2)
  IN  Transform(scale,
                RAdd(RSub(centerX, RMul(scale, centerX)), RMul(scale, translateX)),
                RAdd(RSub(centerY, RMul(scale, centerY)), RMul(scale, translateY)))

\* the ImageData captureFrame returns: its size, the source time whose frame was
\* drawn, the transform the frame was drawn under and the overlays drawn over it
captureFrame(video, zoomEffects, textOverlays) ==
  LET canvas == CanvasSize(video.videoWidth, video.videoHeight)
  IN  [width |-> canvas.width,
       height |-> canvas.height,
       presented |-> video.currentTime,
       transform |-> IF Len(zoomEffects) > 0
                     THEN ZoomTransform(zoomEffects[1], canvas.width, canvas.height)
                     ELSE IdentityTransform,
       texts |-> textOverlays]

(***************************************************************************)
(* Inputs of the export                                                    *)
(***************************************************************************)
\* most invocations of exportVideo explored in one behaviour
MaxRuns == 2

\* the duration prop, in seconds: an empty source and one of two capture batches
Durations == { Int2Rat(0), Rat(3, 4) }

\* the frame rate slider (24..60): both ends and the processing cap
FpsChoices == { 24, 30, 60 }

\* the quality selector: the default and one other entry
QualityChoices == { "720p", "1080p" }

\* the frame numbers whose writeFile the environment may reject: the first one,
\* and one after the second progress report of the write loop, beyond the last
\* frame of a 24 fps run
FailingWrites == { 0, 20 }

\* percentages the encoder's progress event reports
PercentChoices == { 0, 40, 100 }

\* the keyframes of the exported project
ExportZooms ==
  << [id |-> <<"1">>, startTime |-> Rat(1, 4), endTime |-> Rat(1, 2),
      x |-> Int2Rat(80), y |-> Int2Rat(20), scale |-> Int2Rat(2), transition |-> "smooth"] >>

\* the text overlays of the exported project, the later one first in the array;
\* their ranges overlap and their ends are sample times at 24 and at 30 fps
ExportTexts ==
  << [id |-> <<"b">>, startTime |-> Rat(1, 6), endTime |-> Rat(1, 2),
      text |-> "caption", x |-> Int2Rat(50), y |-> Int2Rat(90)],
     [id |-> <<"a">>, startTime |-> Int2Rat(0), endTime |-> Rat(1, 3),
      text |-> "title", x |-> Int2Rat(50), y |-> Int2Rat(10)] >>

\* the exported projects: one without effects, one with a keyframe and overlays
ExportProjects ==
  { [zoomEffects |-> <<>>, textOverlays |-> <<>>],
    [zoomEffects |-> ExportZooms, textOverlays |-> ExportTexts] }

BusyStages == { "capturing", "processing", "encoding" }

(***************************************************************************)
(* Inputs of captureFrame                                                  *)
(***************************************************************************)
VideoSize(w, h) == [videoWidth |-> w, videoHeight |-> h]

\* the source of the exported project
SourceSize == VideoSize(1280, 720)

\* source resolutions: below, at and above the canvas limits, landscape and portrait
VideoSizes ==
  { VideoSize(640, 480), SourceSize, VideoSize(1920, 1080), VideoSize(3840, 2160),
    VideoSize(1080, 1920), VideoSize(2560, 1080) }

\* visual states handed to captureFrame: pivots at the corners, off centre and at
\* the centre; no magnification, two magnifications and the largest one
CaptureStates ==
  { [id |-> <<"z">>, startTime |-> Int2Rat(0), endTime |-> Int2Rat(1),
     x |-> Int2Rat(x), y |-> Int2Rat(y), scale |-> sc, transition |-> "smooth"] :
    x \in {0, 20, 50, 100}, y \in {0, 50, 70},
    sc \in {Int2Rat(1), Rat(3, 2), Int2Rat(2), Int2Rat(5)} }

CaptureZooms == { <<>> } \cup { <<z>> : z \in CaptureStates }

SampleText ==
  [id |-> <<"t">>, startTime |-> Int2Rat(0), endTime |-> Int2Rat(1),
   text |-> "title", x |-> Int2Rat(50), y |-> Int2Rat(10)]

CaptureTexts == { <<>>, <<SampleText>> }

VARIABLES
  zoomEffects,   \* the caller's keyframe array
  evalCalls,     \* how many evaluations were made (at most one)
  evalTime,      \* the time of the last evaluation
  previewZoom,   \* getInterpolatedZoom(evalTime, zoomEffects)
  exportZoom,    \* getExportInterpolatedZoom(evalTime, zoomEffects)
  frameZoom,     \* what exportVideo precomputes for a sample at evalTime
  zoomsBefore,   \* the caller's array as it was before the last evaluation
  \* ---- one call of captureFrame on its own
  textOverlays,  \* the textOverlays prop of ExportModal
  capCalls,      \* how many such calls were made (at most one)
  capZooms,      \* the call's zoomEffects argument
  capTexts,      \* the call's textOverlays argument
  capFrame,      \* the ImageData the call returned
  wrapperTransform, \* the preview's transform for the call's state, on a wrapper
                 \* of the frame's size
  \* ---- ExportModal component state
  loadPc,        \* initFFmpeg: "mounted", "loading", "loaded", "failed"
  isLoaded,      \* useState isLoaded
  exportProgress,\* useState exportProgress: [stage, progress, message, error]
  exportSettings,\* useState exportSettings: [quality, fps, includeAudio]
  duration,      \* the duration prop
  closed,        \* onClose was called
  \* ---- VideoPlayer
  isVideoReady,  \* useState isVideoReady
  videoTime,     \* the time the video element presents
  seekTarget,    \* the time of the seek in flight, or NoSeek
  videoSize,     \* the element's [videoWidth, videoHeight]
  \* ---- one invocation of exportVideo
  runs,          \* invocations so far
  pc,            \* where the invocation stands; "idle" when none is running
  settings,      \* exportSettings as the invocation's closure captured it
  totalFrames,   \* const totalFrames
  loopI,         \* the variable i of the loop the invocation is in
  raf1,          \* captureFrame calls waiting for their first animation frame
  raf2,          \* captureFrame calls waiting for their second animation frame
  captured,      \* the frames captureFrame has returned, in order
  capRejected,   \* a captureFrame promise of some batch rejected
  frames,        \* const frames, after the flatten
  blobPending,   \* convertBatch promises not settled yet
  blobsDone,     \* payloads of the settled convertBatch promises
  blobRejected,  \* a convertBatch promise rejected
  blobs,         \* const blobs
  encLog,        \* the calls made on the encoder by this invocation
  execArgs,      \* the argument vector of the invocation's exec call
  wroteFrames,   \* the frame files the invocation wrote: [name, sample], in order
  failed,        \* what failed in this invocation, "" if nothing
  \* ---- the encoder's file system
  fsFrames,     \* fsFrames[i + 1]: the invocation that wrote frame file number i last
  fsAudio,      \* the invocation that wrote the audio input, 0 if none
  fsOutput,      \* the invocation whose exec wrote output.mp4, 0 if none
  \* ---- a second invocation of exportVideo, started while the first is running
  pc2,           \* where it stands in its readiness check; "idle" when there is none
  \* ---- one call of lerp on its own
  blendCalls,    \* how many such calls were made (at most one)
  blendA,        \* the argument a
  blendB,        \* the argument b
  blendT,        \* the argument t
  blendLinear,   \* what the lerp of src/types/index.ts returned
  blendCubic,    \* what the lerp of the other revision of that file returned
  \* ---- the preload module (let ffmpegInstance, loadPromise, loaded)
  ffmpegInstance,\* the number of the FFmpeg object it holds, 0 for null
  loadPromise,   \* the number of the FFmpeg object whose load it holds, 0 for null
  loaded,        \* let loaded
  loadState,     \* loadState[k]: how far the load of the k-th FFmpeg object got
  callers,       \* the preloadFfmpeg calls made: [load, status, instance]
  terminates,    \* how many times terminateFfmpeg was called
  afterTerminate \* terminateFfmpeg returned and preloadFfmpeg was not called since

evalVars == <<zoomEffects, evalCalls, evalTime, previewZoom, exportZoom, frameZoom, zoomsBefore>>
modalVars == <<loadPc, isLoaded, exportProgress, exportSettings, duration, closed>>
playerVars == <<isVideoReady, videoTime, seekTarget, videoSize>>
captureVars == <<textOverlays, capCalls, capZooms, capTexts, capFrame, wrapperTransform>>
blendVars == <<blendCalls, blendA, blendB, blendT, blendLinear, blendCubic>>
preloadVars == <<ffmpegInstance, loadPromise, loaded, loadState, callers, terminates,
                 afterTerminate>>
\* what the steps of one invocation of exportVideo never write
calcVars == <<evalVars, captureVars, blendVars, preloadVars>>
pureVars == <<calcVars, pc2>>
runVars == <<runs, pc, settings, totalFrames, loopI, raf1, raf2, captured, capRejected,
             frames, blobPending, blobsDone, blobRejected, blobs, encLog, execArgs,
             wroteFrames, failed>>
fsVars == <<fsFrames, fsAudio, fsOutput>>
vars == <<evalVars, captureVars, modalVars, playerVars, runVars, fsVars, pc2, blendVars,
          preloadVars>>

NoSeek == [n |-> 0, d |-> 0]
NoFrame == [width |-> 0, height |-> 0, presented |-> Int2Rat(0),
            transform |-> IdentityTransform, texts |-> <<>>]
NoArgs == [framerate |-> 0, audioInput |-> FALSE, height |-> 0, crf |-> 0]

\* useState defaults of ExportModal
DefaultSettings == [quality |-> "1080p", fps |-> 30, includeAudio |-> TRUE]

Report(stage, progress, message, error) ==
  [stage |-> stage, progress |-> progress, message |-> message, error |-> error]

\* the state of the components after construction, for one duration
Mounted(dur) ==
  /\ loadPc = "mounted"
  /\ isLoaded = FALSE
  /\ exportProgress = Report("initializing", 0, "Initializing export...", "")
  /\ exportSettings = DefaultSettings
  /\ duration = dur
  /\ closed = FALSE
  /\ isVideoReady = FALSE
  /\ videoTime = Int2Rat(0)
  /\ seekTarget = NoSeek
  /\ runs = 0
  /\ pc = "idle"
  /\ settings = DefaultSettings
  /\ totalFrames = 0
  /\ loopI = 0
  /\ raf1 = <<>>
  /\ raf2 = <<>>
  /\ captured = <<>>
  /\ capRejected = FALSE
  /\ frames = <<>>
  /\ blobPending = <<>>
  /\ blobsDone = <<>>
  /\ blobRejected = FALSE
  /\ blobs = <<>>
  /\ encLog = <<>>
  /\ execArgs = NoArgs
  /\ wroteFrames = <<>>
  /\ failed = ""
  /\ fsFrames = <<>>
  /\ fsAudio = 0
  /\ fsOutput = 0
  /\ pc2 = "idle"

NotEvaluating ==
  /\ evalCalls = 0
  /\ evalTime = Int2Rat(0)
  /\ previewZoom = NoZoom
  /\ exportZoom = NoZoom
  /\ frameZoom = NoZoom
  /\ zoomsBefore = zoomEffects

\* no call of captureFrame on its own was made; the project has no text overlay
NoCaptureCall ==
  /\ capCalls = 0
  /\ capZooms = <<>>
  /\ capTexts = <<>>
  /\ capFrame = NoFrame
  /\ wrapperTransform = IdentityTransform

NotCapturing ==
  /\ textOverlays = <<>>
  /\ NoCaptureCall

\* no call of lerp on its own was made
NoBlendCall ==
  /\ blendCalls = 0
  /\ blendT = Int2Rat(0)
  /\ blendLinear = Int2Rat(0)
  /\ blendCubic = Int2Rat(0)

NotBlending ==
  /\ blendA = Int2Rat(0)
  /\ blendB = Int2Rat(0)
  /\ NoBlendCall

\* the preload module after its evaluation: let ffmpegInstance = null,
\* loadPromise = null, loaded = false
ModuleInit ==
  /\ ffmpegInstance = 0
  /\ loadPromise = 0
  /\ loaded = FALSE
  /\ loadState = <<>>
  /\ callers = <<>>
  /\ terminates = 0
  /\ afterTerminate = FALSE

EvalInit ==
  /\ zoomEffects \in KeyframeLists(MaxKeyframes)
  /\ NotEvaluating
  /\ NotBlending
  /\ ModuleInit
  /\ NotCapturing
  /\ videoSize = SourceSize
  /\ Mounted(Int2Rat(0))

\* one evaluation at time t by the preview, by getExportInterpolatedZoom and by
\* the export precomputation; the caller's array is what the call left of it
Evaluate(t) ==
  /\ evalCalls = 0
  /\ evalCalls' = evalCalls + 1
  /\ evalTime' = t
  /\ zoomsBefore' = zoomEffects
  /\ previewZoom' = getInterpolatedZoom(t, zoomEffects)
  /\ exportZoom' = getExportInterpolatedZoom(t, zoomEffects)
  /\ frameZoom' = FrameZoom(t, zoomEffects)
  /\ zoomEffects' = SortedCopy(zoomEffects).zooms
  /\ UNCHANGED <<captureVars, modalVars, playerVars, runVars, fsVars, pc2, blendVars,
               preloadVars>>

EvalNext == \E t \in EvalTimes : Evaluate(t)

EvalSpec == EvalInit /\ [][EvalNext]_vars

\* the evaluator on the keyframe lists of the scenarios
ScenarioInit ==
  /\ zoomEffects \in ScenarioLists
  /\ NotEvaluating
  /\ NotBlending
  /\ ModuleInit
  /\ NotCapturing
  /\ videoSize = SourceSize
  /\ Mounted(Int2Rat(0))

ScenarioNext == \E t \in ScenarioTimes : Evaluate(t)

ScenarioSpec == ScenarioInit /\ [][ScenarioNext]_vars

(***************************************************************************)
(* src/components/ExportModal.tsx and the VideoPlayer handle: the handlers *)
(* and the steps of exportVideo.  One step is the code between two awaits, *)
(* cut further at each setExportProgress call so that every report is a    *)
(* state.  A collaborator call that can reject takes its outcome from the  *)
(* environment.  One invocation of exportVideo is followed at a time.      *)
(***************************************************************************)
Init ==
  /\ \E project \in ExportProjects :
       /\ zoomEffects = project.zoomEffects
       /\ textOverlays = project.textOverlays
  /\ NotEvaluating
  /\ NotBlending
  /\ ModuleInit
  /\ NoCaptureCall
  /\ videoSize = SourceSize
  /\ \E dur \in Durations : Mounted(dur)

\* the catch blocks: setExportProgress({ stage: 'error', progress: 0, ... })
Catch(what, message) ==
  /\ exportProgress' = Report("error", 0, message, what)
  /\ failed' = IF failed = "" THEN what ELSE failed
  /\ pc' = "idle"

\* initFFmpeg up to await ffmpegInstance.load()
InitFFmpeg ==
  /\ loadPc = "mounted"
  /\ loadPc' = "loading"
  /\ exportProgress' = Report("initializing", 10, "Loading FFmpeg...", "")
  /\ UNCHANGED <<isLoaded, exportSettings, duration, closed>>
  /\ UNCHANGED <<pureVars, playerVars, runVars, fsVars>>

\* initFFmpeg after load() resolved
FFmpegLoaded ==
  /\ loadPc = "loading"
  /\ loadPc' = "loaded"
  /\ isLoaded' = TRUE
  /\ exportProgress' = Report("initializing", 100, "FFmpeg loaded successfully", "")
  /\ UNCHANGED <<exportSettings, duration, closed>>
  /\ UNCHANGED <<pureVars, playerVars, runVars, fsVars>>

\* initFFmpeg's catch
FFmpegLoadFailed ==
  /\ loadPc = "loading"
  /\ loadPc' = "failed"
  /\ exportProgress' = Report("error", 0, "Failed to load FFmpeg", "load")
  /\ UNCHANGED <<isLoaded, exportSettings, duration, closed>>
  /\ UNCHANGED <<pureVars, playerVars, runVars, fsVars>>

\* VideoPlayer handleLoadedMetadata / handleLoadedData
LoadedMetadata ==
  /\ ~isVideoReady
  /\ isVideoReady' = TRUE
  /\ UNCHANGED <<videoTime, seekTarget, videoSize>>
  /\ UNCHANGED <<pureVars, modalVars, runVars, fsVars>>

\* the settings panel's onChange handlers; a change can matter to a later
\* invocation only, so it is followed between invocations
ChangeSettings(new) ==
  /\ pc = "idle"
  /\ ~closed
  /\ runs < MaxRuns
  /\ new # exportSettings
  /\ exportSettings' = new
  /\ UNCHANGED <<loadPc, isLoaded, exportProgress, duration, closed>>
  /\ UNCHANGED <<pureVars, playerVars, runVars, fsVars>>

SetQuality(q) == ChangeSettings([exportSettings EXCEPT !.quality = q])
SetFps(f) == ChangeSettings([exportSettings EXCEPT !.fps = f])
SetIncludeAudio(b) == ChangeSettings([exportSettings EXCEPT !.includeAudio = b])

\* the Export button is enabled
ExportEnabled == isLoaded /\ exportProgress.stage \notin BusyStages

\* onClick={exportVideo}: the guards before the test frame
ClickExport(playerAvailable) ==
  /\ ExportEnabled
  /\ ~closed
  /\ pc = "idle"
  /\ runs < MaxRuns
  /\ runs' = runs + 1
  /\ settings' = exportSettings
  /\ totalFrames' = 0
  /\ loopI' = 0
  /\ raf1' = <<>>
  /\ raf2' = <<>>
  /\ captured' = <<>>
  /\ capRejected' = FALSE
  /\ frames' = <<>>
  /\ blobPending' = <<>>
  /\ blobsDone' = <<>>
  /\ blobRejected' = FALSE
  /\ blobs' = <<>>
  /\ encLog' = <<>>
  /\ execArgs' = NoArgs
  /\ wroteFrames' = <<>>
  /\ IF ~isLoaded
     THEN /\ exportProgress' = Report("error", 0, "FFmpeg not loaded", "ffmpeg")
          /\ failed' = "ffmpeg"
          /\ pc' = "idle"
     ELSE IF ~playerAvailable
     THEN /\ exportProgress' = Report("error", 0, "VideoPlayer not available", "player")
          /\ failed' = "player"
          /\ pc' = "idle"
     ELSE /\ failed' = ""
          /\ pc' = "testSeek"
          /\ UNCHANGED exportProgress
  /\ UNCHANGED <<loadPc, isLoaded, exportSettings, duration, closed>>
  /\ UNCHANGED <<pureVars, playerVars, fsVars>>

RunLocals == <<runs, settings, totalFrames, loopI, raf1, raf2, captured, capRejected,
               frames, blobPending, blobsDone, blobRejected, blobs, encLog, execArgs,
               wroteFrames>>
ModalRest == <<loadPc, isLoaded, exportSettings, duration, closed>>

\* a seekAndWait that starts the seek whatever the state of the player
SeekRejects_Never(ready) == FALSE

\* seekAndWait: if (!videoRef.current || !isVideoReady) throw new Error('Video not ready')
SeekRejects(ready) == ~ready

\* await videoPlayerRef.current.seekAndWait(0): the readiness check, then
\* video.currentTime = time with a 'seeked' listener
TestSeek ==
  /\ pc = "testSeek"
  /\ IF SeekRejects(isVideoReady)
     THEN /\ Catch("seek", "Frame capture test failed")
          /\ UNCHANGED seekTarget
     ELSE /\ seekTarget' = Int2Rat(0)
          /\ pc' = "testSeekWait"
          /\ UNCHANGED <<exportProgress, failed>>
  /\ UNCHANGED <<isVideoReady, videoTime, videoSize>>
  /\ UNCHANGED <<RunLocals, ModalRest, pureVars, fsVars>>

\* the video element's 'seeked' event: every handleSeeked listener registered by
\* a seekAndWait call resolves its call
Seeked ==
  /\ seekTarget # NoSeek
  /\ videoTime' = seekTarget
  /\ seekTarget' = NoSeek
  /\ pc' = IF pc = "testSeekWait" THEN "testCapture" ELSE pc
  /\ pc2' = IF pc2 = "testSeekWait" THEN "testCapture" ELSE pc2
  /\ UNCHANGED <<isVideoReady, videoSize, exportProgress, failed>>
  /\ UNCHANGED <<RunLocals, ModalRest, calcVars, fsVars>>

\* const testFrame = await captureFrame([], []); the width/height check.  The
\* call resolves with a frame ("ok"), resolves with a frame of zero width or
\* height ("zero"), or rejects ("throw"); the last two end in the same catch.
TestCapture(outcome) ==
  /\ pc = "testCapture"
  /\ IF outcome = "ok"
     THEN /\ pc' = "enterCapturing"
          /\ UNCHANGED <<exportProgress, failed>>
     ELSE Catch(IF outcome = "zero" THEN "frame" ELSE "capture", "Frame capture test failed")
  /\ UNCHANGED <<RunLocals, ModalRest, playerVars, pureVars, fsVars>>

\* setExportProgress({ stage: 'capturing', progress: 0 }) and the frame count
EnterCapturing ==
  /\ pc = "enterCapturing"
  /\ exportProgress' = Report("capturing", 0, "Preparing video export...", "")
  /\ totalFrames' = totalFramesOf(duration, settings.fps)
  /\ loopI' = 0
  /\ pc' = "captureLoop"
  /\ UNCHANGED <<runs, settings, raf1, raf2, captured, capRejected, frames, blobPending,
                 blobsDone, blobRejected, blobs, encLog, execArgs, wroteFrames, failed>>
  /\ UNCHANGED <<ModalRest, playerVars, pureVars, fsVars>>

\* the samples i .. batchEnd - 1 of one batch
BatchSamples(from, total) ==
  LET batchEnd == IF from + batchSize < total THEN from + batchSize ELSE total
  IN  [k \in 1..(batchEnd - from) |-> from + k - 1]

\* the loop going on to its next iteration without awaiting the timer
AwaitTimer_Skipped(yieldPc, loopPc, i, step) == [pc |-> loopPc, loopI |-> i + step]

\* await new Promise((resolve) => setTimeout(resolve, 0)) at the end of an
\* iteration: the invocation is parked until the timer task runs, and only then
\* the loop variable is advanced
AwaitTimer(yieldPc, loopPc, i, step) == [pc |-> yieldPc, loopI |-> i]

\* one iteration of the capture loop up to its setTimeout: the progress report
\* and the batch's captureFrame calls, each of which requests an animation frame
CaptureBatch ==
  /\ pc = "captureLoop"
  /\ loopI < totalFrames
  /\ exportProgress' = [exportProgress EXCEPT !.progress = CaptureProgress(loopI, totalFrames),
                                              !.message = "Capturing frames"]
  /\ raf1' = raf1 \o BatchSamples(loopI, totalFrames)
  /\ pc' = AwaitTimer("captureYield", "captureLoop", loopI, batchSize).pc
  /\ loopI' = AwaitTimer("captureYield", "captureLoop", loopI, batchSize).loopI
  /\ UNCHANGED <<runs, settings, totalFrames, raf2, captured, capRejected, frames,
                 blobPending, blobsDone, blobRejected, blobs, encLog, execArgs, wroteFrames, failed>>
  /\ UNCHANGED <<ModalRest, playerVars, pureVars, fsVars>>

\* the setTimeout(resolve, 0) of the capture loop fires: i += batchSize
CaptureTimer ==
  /\ pc = "captureYield"
  /\ loopI' = loopI + batchSize
  /\ pc' = "captureLoop"
  /\ UNCHANGED <<runs, settings, totalFrames, raf1, raf2, captured, capRejected, frames,
                 blobPending, blobsDone, blobRejected, blobs, encLog, execArgs, wroteFrames, failed>>
  /\ UNCHANGED <<exportProgress, ModalRest, playerVars, pureVars, fsVars>>

\* the capture loop ends: i >= totalFrames
CaptureLoopEnd ==
  /\ pc = "captureLoop"
  /\ loopI >= totalFrames
  /\ pc' = "awaitFrames"
  /\ UNCHANGED <<RunLocals, failed, exportProgress, ModalRest, playerVars, pureVars, fsVars>>

\* the filter with both ends of the range excluded
TextsForFrame_Exclusive(time) ==
  SelectSeq(textOverlays, LAMBDA t : RLt(t.startTime, time) /\ RLt(time, t.endTime))

\* textOverlays.filter(t => time >= t.startTime && time <= t.endTime)
TextsForFrame(time) ==
  SelectSeq(textOverlays, LAMBDA t : RLe(t.startTime, time) /\ RLe(time, t.endTime))

\* the video element as captureFrame reads it
Video == [videoWidth |-> videoSize.videoWidth, videoHeight |-> videoSize.videoHeight,
          currentTime |-> videoTime]

\* frameData[j] and what captureFrame makes of it: the frame drawn from the
\* video element as it is at the moment of the draw
CapturedFrame(j) ==
  LET time == SampleTime(j, settings.fps)
      zoomsForFrame == <<FrameZoom(time, zoomEffects)>>
      imageData == captureFrame(Video, zoomsForFrame, TextsForFrame(time))
  IN  [sample |-> j,
       time |-> time,
       presented |-> imageData.presented,
       zoom |-> XYS(zoomsForFrame[1]),
       width |-> imageData.width,
       height |-> imageData.height,
       transform |-> imageData.transform,
       texts |-> imageData.texts]

\* one animation frame of the browser: the captureFrame calls past their first
\* requestAnimationFrame draw and return (the first of them may throw), the
\* others move on to their second
AnimationFrame(throws) ==
  /\ pc \in {"captureLoop", "captureYield", "awaitFrames"}
  /\ raf1 # <<>> \/ raf2 # <<>>
  /\ throws => raf2 # <<>>
  /\ LET drawn == IF throws THEN Tail(raf2) ELSE raf2
     IN  captured' = captured \o [k \in 1..Len(drawn) |-> CapturedFrame(drawn[k])]
  /\ capRejected' = (capRejected \/ throws)
  /\ failed' = IF throws /\ failed = "" THEN "capture" ELSE failed
  /\ raf2' = raf1
  /\ raf1' = <<>>
  /\ UNCHANGED <<runs, pc, settings, totalFrames, loopI, frames, blobPending, blobsDone,
                 blobRejected, blobs, encLog, execArgs, wroteFrames>>
  /\ UNCHANGED <<modalVars, playerVars, pureVars, fsVars>>

\* const batchResults = await Promise.all(frameBatches); frames.push(...flat())
AwaitFrames ==
  /\ pc = "awaitFrames"
  /\ capRejected \/ (raf1 = <<>> /\ raf2 = <<>>)
  /\ IF capRejected
     THEN /\ Catch("capture", "Export failed")
          /\ UNCHANGED frames
     ELSE /\ frames' = captured
          /\ pc' = "enterProcessing"
          /\ UNCHANGED <<exportProgress, failed>>
  /\ UNCHANGED <<runs, settings, totalFrames, loopI, raf1, raf2, captured, capRejected,
                 blobPending, blobsDone, blobRejected, blobs, encLog, execArgs, wroteFrames>>
  /\ UNCHANGED <<ModalRest, playerVars, pureVars, fsVars>>

\* setExportProgress({ stage: 'processing', progress: 50 })
EnterProcessing ==
  /\ pc = "enterProcessing"
  /\ exportProgress' = Report("processing", 50, "Processing frames...", "")
  /\ loopI' = 0
  /\ pc' = "convertLoop"
  /\ UNCHANGED <<runs, settings, totalFrames, raf1, raf2, captured, capRejected, frames,
                 blobPending, blobsDone, blobRejected, blobs, encLog, execArgs, wroteFrames, failed>>
  /\ UNCHANGED <<ModalRest, playerVars, pureVars, fsVars>>

\* convertBatch(frames, startIndex, batchSize): the frames it converts
ConvertSamples(startIndex) ==
  LET n == IF blobBatchSize < Len(frames) - startIndex
           THEN blobBatchSize ELSE Len(frames) - startIndex
  IN  [k \in 1..n |-> frames[startIndex + k]]

\* one iteration of the conversion loop up to its setTimeout
ConvertBatch ==
  /\ pc = "convertLoop"
  /\ loopI < Len(frames)
  /\ blobPending' = Append(blobPending, ConvertSamples(loopI))
  /\ pc' = AwaitTimer("convertYield", "convertLoop", loopI, blobBatchSize).pc
  /\ loopI' = AwaitTimer("convertYield", "convertLoop", loopI, blobBatchSize).loopI
  /\ UNCHANGED <<runs, settings, totalFrames, raf1, raf2, captured, capRejected,
                 frames, blobsDone, blobRejected, blobs, encLog, execArgs, wroteFrames, failed>>
  /\ UNCHANGED <<exportProgress, ModalRest, playerVars, pureVars, fsVars>>

\* the setTimeout of the conversion loop fires: i += blobBatchSize
ConvertTimer ==
  /\ pc = "convertYield"
  /\ loopI' = loopI + blobBatchSize
  /\ pc' = "convertLoop"
  /\ UNCHANGED <<runs, settings, totalFrames, raf1, raf2, captured, capRejected, frames,
                 blobPending, blobsDone, blobRejected, blobs, encLog, execArgs, wroteFrames, failed>>
  /\ UNCHANGED <<exportProgress, ModalRest, playerVars, pureVars, fsVars>>

\* the conversion loop ends
ConvertLoopEnd ==
  /\ pc = "convertLoop"
  /\ loopI >= Len(frames)
  /\ pc' = "awaitBlobs"
  /\ UNCHANGED <<RunLocals, failed, exportProgress, ModalRest, playerVars, pureVars, fsVars>>

\* the oldest unsettled convertBatch promise settles: its convertToBlob calls
\* have all resolved, or one of them rejected
BlobBatchSettled(rejects) ==
  /\ pc \in {"convertLoop", "convertYield", "awaitBlobs"}
  /\ blobPending # <<>>
  /\ blobPending' = Tail(blobPending)
  /\ IF rejects
     THEN /\ blobRejected' = TRUE
          /\ failed' = IF failed = "" THEN "convert" ELSE failed
          /\ UNCHANGED blobsDone
     ELSE /\ blobsDone' = blobsDone \o Head(blobPending)
          /\ UNCHANGED <<blobRejected, failed>>
  /\ UNCHANGED <<runs, pc, settings, totalFrames, loopI, raf1, raf2, captured, capRejected,
                 frames, blobs, encLog, execArgs, wroteFrames>>
  /\ UNCHANGED <<modalVars, playerVars, pureVars, fsVars>>

\* const blobs = (await Promise.all(blobBatches)).flat()
AwaitBlobs ==
  /\ pc = "awaitBlobs"
  /\ blobRejected \/ blobPending = <<>>
  /\ IF blobRejected
     THEN /\ Catch("convert", "Export failed")
          /\ UNCHANGED <<blobs, loopI>>
     ELSE /\ blobs' = blobsDone
          /\ loopI' = 0
          /\ pc' = "writeLoop"
          /\ UNCHANGED <<exportProgress, failed>>
  /\ UNCHANGED <<runs, settings, totalFrames, raf1, raf2, captured, capRejected, frames,
                 blobPending, blobsDone, blobRejected, encLog, execArgs, wroteFrames>>
  /\ UNCHANGED <<ModalRest, playerVars, pureVars, fsVars>>

\* the decimal digits of a natural number, most significant first
RECURSIVE Digits(_)
Digits(n) == IF n < 10 THEN <<n>> ELSE Append(Digits(n \div 10), n % 10)

\* i.toString() without the padding
PadStart_None(digits, width) == digits

\* String.prototype.padStart(width, '0') on a string of digits
PadStart(digits, width) ==
  IF Len(digits) >= width THEN digits
  ELSE [k \in 1..(width - Len(digits)) |-> 0] \o digits

\* i.toString().padStart(6, '0')
FrameNumberWidth == 6
frameNumber(i) == PadStart(Digits(i), FrameNumberWidth)

\* `frame_${frameNumber}.png` as character codes
FrameFileName(i) ==
  <<102, 114, 97, 109, 101, 95>> \o [k \in 1..Len(frameNumber(i)) |-> 48 + frameNumber(i)[k]]
    \o <<46, 112, 110, 103>>

LogEntry(op, arg) == [op |-> op, arg |-> arg]

\* ffmpeg.writeFile(`frame_${frameNumber}.png`, ...) by the invocation run: the
\* file is created, or replaced if an earlier invocation left one of that name.
\* No code deletes a file, and frame number i is written after number i - 1.
WriteFile(files, i, run) ==
  IF i < Len(files) THEN [files EXCEPT ![i + 1] = run] ELSE Append(files, run)

\* '-i', 'frame_%06d.png': the image-sequence reader takes the numbered files
\* from frame_000000.png on, up to the first number with no file
ImageSequence(files) == files

\* one iteration of the write loop: arrayBuffer(), writeFile(), and every tenth
\* frame a progress report and a setTimeout
WriteFrame(outcome) ==
  /\ pc = "writeLoop"
  /\ loopI < Len(blobs)
  /\ outcome # "ok" => loopI \in FailingWrites
  /\ IF outcome = "ok"
     THEN /\ encLog' = Append(encLog, LogEntry("writeFile", loopI))
          /\ wroteFrames' = Append(wroteFrames, [name |-> FrameFileName(loopI),
                                                 sample |-> blobs[loopI + 1].sample])
          /\ fsFrames' = WriteFile(fsFrames, loopI, runs)
          /\ UNCHANGED failed
          /\ IF loopI > 0 /\ loopI % WriteReportEvery = 0
             THEN /\ exportProgress' =
                       [exportProgress EXCEPT !.progress = @ + WriteReportStep,
                                              !.message = "Prepared frames for encoding..."]
                  /\ pc' = "writeYield"
                  /\ UNCHANGED loopI
             ELSE /\ loopI' = loopI + 1
                  /\ UNCHANGED <<exportProgress, pc>>
     ELSE /\ Catch("write", "Export failed")
          /\ UNCHANGED <<encLog, wroteFrames, fsFrames, loopI>>
  /\ UNCHANGED <<runs, settings, totalFrames, raf1, raf2, captured, capRejected, frames,
                 blobPending, blobsDone, blobRejected, blobs, execArgs>>
  /\ UNCHANGED <<fsAudio, fsOutput, ModalRest, playerVars, pureVars>>

\* the setTimeout of the write loop fires: i++
WriteTimer ==
  /\ pc = "writeYield"
  /\ loopI' = loopI + 1
  /\ pc' = "writeLoop"
  /\ UNCHANGED <<runs, settings, totalFrames, raf1, raf2, captured, capRejected, frames,
                 blobPending, blobsDone, blobRejected, blobs, encLog, execArgs, wroteFrames, failed>>
  /\ UNCHANGED <<exportProgress, ModalRest, playerVars, pureVars, fsVars>>

\* the write loop ends: setExportProgress({ stage: 'encoding', progress: 75 })
EnterEncoding ==
  /\ pc = "writeLoop"
  /\ loopI >= Len(blobs)
  /\ exportProgress' = Report("encoding", 75, "Encoding video...", "")
  /\ pc' = IF NeedsAudio(settings) THEN "audio" ELSE "exec"
  /\ UNCHANGED <<RunLocals, failed, ModalRest, playerVars, pureVars, fsVars>>

\* fetchFile(videoFile) and ffmpeg.writeFile(`audio.${audioExt}`, audioData)
WriteAudio(outcome) ==
  /\ pc = "audio"
  /\ IF outcome = "ok"
     THEN /\ fsAudio' = runs
          /\ encLog' = Append(encLog, LogEntry("writeAudio", 0))
          /\ pc' = "exec"
          /\ UNCHANGED <<exportProgress, failed>>
     ELSE /\ Catch("write", "Export failed")
          /\ UNCHANGED <<fsAudio, encLog>>
  /\ UNCHANGED <<runs, settings, totalFrames, loopI, raf1, raf2, captured, capRejected,
                 frames, blobPending, blobsDone, blobRejected, blobs, execArgs, wroteFrames>>
  /\ UNCHANGED <<fsFrames, fsOutput, ModalRest, playerVars, pureVars>>

\* ffmpeg.exec(ffmpegCommand) is called
ExecStart ==
  /\ pc = "exec"
  /\ execArgs' = ffmpegCommand(settings)
  /\ encLog' = Append(encLog, LogEntry("exec", 0))
  /\ pc' = "execWait"
  /\ UNCHANGED <<runs, settings, totalFrames, loopI, raf1, raf2, captured, capRejected,
                 frames, blobPending, blobsDone, blobRejected, blobs, wroteFrames, failed>>
  /\ UNCHANGED <<exportProgress, ModalRest, playerVars, pureVars, fsVars>>

\* ffmpegInstance.on('progress'): setExportProgress(prev => ({ ...prev, progress: percent }))
EncoderProgress(percent) ==
  /\ pc = "execWait"
  /\ exportProgress' = [exportProgress EXCEPT !.progress = percent,
                                              !.message = "Loading FFmpeg: percent"]
  /\ UNCHANGED <<RunLocals, pc, failed, ModalRest, playerVars, pureVars, fsVars>>

\* await ffmpeg.exec(...) settles: it resolves with the exit status, which the
\* code does not read, or it rejects.  An encoder that exits with a nonzero
\* status may or may not have left an output file behind.
ExecDone(outcome, leavesOutput) ==
  /\ pc = "execWait"
  /\ CASE outcome = "ok" ->
            /\ leavesOutput
            /\ fsOutput' = runs
            /\ encLog' = Append(encLog, LogEntry("execReturn", 0))
            /\ pc' = "read"
            /\ UNCHANGED <<exportProgress, failed>>
       [] outcome = "nonzero" ->
            /\ fsOutput' = IF leavesOutput THEN runs ELSE fsOutput
            /\ encLog' = Append(encLog, LogEntry("execReturn", 1))
            /\ failed' = "exec"
            /\ pc' = "read"
            /\ UNCHANGED exportProgress
       [] outcome = "throw" ->
            /\ leavesOutput
            /\ Catch("exec", "Export failed")
            /\ UNCHANGED <<fsOutput, encLog>>
  /\ UNCHANGED <<runs, settings, totalFrames, loopI, raf1, raf2, captured, capRejected,
                 frames, blobPending, blobsDone, blobRejected, blobs, execArgs, wroteFrames>>
  /\ UNCHANGED <<fsFrames, fsAudio, ModalRest, playerVars, pureVars>>

\* await ffmpeg.readFile('output.mp4'), the download and
\* setExportProgress({ stage: 'complete', progress: 100 })
ReadOutput(outcome) ==
  /\ pc = "read"
  /\ IF outcome = "ok" /\ fsOutput # 0
     THEN /\ encLog' = Append(encLog, LogEntry("readFile", fsOutput))
          /\ exportProgress' = Report("complete", 100, "Export completed successfully!", "")
          /\ pc' = "idle"
          /\ UNCHANGED failed
     ELSE /\ Catch("read", "Export failed")
          /\ UNCHANGED encLog
  /\ UNCHANGED <<runs, settings, totalFrames, loopI, raf1, raf2, captured, capRejected,
                 frames, blobPending, blobsDone, blobRejected, blobs, execArgs, wroteFrames>>
  /\ UNCHANGED <<ModalRest, playerVars, pureVars, fsVars>>

\* onClose: the close and cancel buttons, and the timer set on completion
Close ==
  /\ ~closed
  /\ pc = "idle"
  /\ exportProgress.stage \notin BusyStages
  /\ closed' = TRUE
  /\ UNCHANGED <<loadPc, isLoaded, exportProgress, exportSettings, duration>>
  /\ UNCHANGED <<pureVars, playerVars, runVars, fsVars>>

Next ==
  \/ InitFFmpeg
  \/ FFmpegLoaded
  \/ FFmpegLoadFailed
  \/ LoadedMetadata
  \/ \E q \in QualityChoices : SetQuality(q)
  \/ \E f \in FpsChoices : SetFps(f)
  \/ \E b \in BOOLEAN : SetIncludeAudio(b)
  \/ \E a \in BOOLEAN : ClickExport(a)
  \/ TestSeek
  \/ Seeked
  \/ \E o \in {"ok", "zero", "throw"} : TestCapture(o)
  \/ EnterCapturing
  \/ CaptureBatch
  \/ CaptureTimer
  \/ CaptureLoopEnd
  \/ \E t \in BOOLEAN : AnimationFrame(t)
  \/ AwaitFrames
  \/ EnterProcessing
  \/ ConvertBatch
  \/ ConvertTimer
  \/ ConvertLoopEnd
  \/ \E r \in BOOLEAN : BlobBatchSettled(r)
  \/ AwaitBlobs
  \/ \E o \in {"ok", "throw"} : WriteFrame(o)
  \/ WriteTimer
  \/ EnterEncoding
  \/ \E o \in {"ok", "throw"} : WriteAudio(o)
  \/ ExecStart
  \/ \E p \in PercentChoices : EncoderProgress(p)
  \/ \E o \in {"ok", "nonzero", "throw"}, l \in BOOLEAN : ExecDone(o, l)
  \/ \E o \in {"ok", "throw"} : ReadOutput(o)
  \/ Close

Spec == Init /\ [][Next]_vars

(***************************************************************************)
(* One export of a long source in which every collaborator call succeeds,  *)
(* up to the encoding stage                                                *)
(***************************************************************************)
\* the duration prop of a source of 9 s: 270 samples at 30 fps
LongDuration == Int2Rat(9)

ProgressInit ==
  /\ zoomEffects = <<>>
  /\ NotEvaluating
  /\ NotBlending
  /\ ModuleInit
  /\ NotCapturing
  /\ videoSize = SourceSize
  /\ Mounted(LongDuration)

ProgressNext ==
  \/ InitFFmpeg
  \/ FFmpegLoaded
  \/ LoadedMetadata
  \/ ClickExport(TRUE)
  \/ TestSeek
  \/ Seeked
  \/ TestCapture("ok")
  \/ EnterCapturing
  \/ CaptureBatch
  \/ CaptureTimer
  \/ CaptureLoopEnd
  \/ AnimationFrame(FALSE)
  \/ AwaitFrames
  \/ EnterProcessing
  \/ ConvertBatch
  \/ ConvertTimer
  \/ ConvertLoopEnd
  \/ BlobBatchSettled(FALSE)
  \/ AwaitBlobs
  \/ WriteFrame("ok")
  \/ WriteTimer
  \/ EnterEncoding

ProgressSpec == ProgressInit /\ [][ProgressNext]_vars

(***************************************************************************)
(* One call of captureFrame on a ready player, for every source size       *)
(***************************************************************************)
CaptureInit ==
  /\ zoomEffects = <<>>
  /\ NotEvaluating
  /\ NotBlending
  /\ ModuleInit
  /\ NotCapturing
  /\ videoSize \in VideoSizes
  /\ Mounted(Int2Rat(0))

\* videoPlayerRef.current.captureFrame(zooms, texts); it throws unless the video
\* is ready.  The preview shows the same state: its effect on [currentZoom] sets
\* the wrapper's transform, or 'none' when there is no zoom.
Capture(zooms, texts) ==
  /\ isVideoReady
  /\ capCalls = 0
  /\ capCalls' = capCalls + 1
  /\ capZooms' = zooms
  /\ capTexts' = texts
  /\ capFrame' = captureFrame(Video, zooms, texts)
  /\ wrapperTransform' =
       IF Len(zooms) > 0
       THEN LET canvas == CanvasSize(videoSize.videoWidth, videoSize.videoHeight)
            IN  PreviewTransform(zooms[1], canvas.width, canvas.height)
       ELSE IdentityTransform
  /\ UNCHANGED <<textOverlays, evalVars, modalVars, playerVars, runVars, fsVars, pc2,
               blendVars, preloadVars>>

CaptureNext ==
  \/ LoadedMetadata
  \/ \E zooms \in CaptureZooms, texts \in CaptureTexts : Capture(zooms, texts)

CaptureSpec == CaptureInit /\ [][CaptureNext]_vars

(***************************************************************************)
(* The export up to its test frame while the editor's timeline moves: the  *)
(* player's currentTime prop changes by scrubbing or playback              *)
(***************************************************************************)
\* values the currentTime prop takes
SyncTimes == { Int2Rat(0), Rat(1, 2) }

\* video.currentTime as a script reads it: the target of the seek in flight,
\* else the time presented
CurrentTimeAttr == IF seekTarget # NoSeek THEN seekTarget ELSE videoTime

\* useEffect on [currentTime, isVideoReady]: if (Math.abs(video.currentTime -
\* currentTime) > 0.1) video.currentTime = currentTime.  The assignment starts a
\* seek and abandons the one in flight.
SyncCurrentTime(currentTime) ==
  /\ isVideoReady
  /\ RLt(Rat(1, 10), RAbs(RSub(CurrentTimeAttr, currentTime)))
  /\ seekTarget' = currentTime
  /\ UNCHANGED <<isVideoReady, videoTime, videoSize>>
  /\ UNCHANGED <<pureVars, modalVars, runVars, fsVars>>

SeekNext ==
  \/ InitFFmpeg
  \/ FFmpegLoaded
  \/ FFmpegLoadFailed
  \/ LoadedMetadata
  \/ \E a \in BOOLEAN : ClickExport(a)
  \/ TestSeek
  \/ Seeked
  \/ \E o \in {"ok", "zero", "throw"} : TestCapture(o)
  \/ \E t \in SyncTimes : SyncCurrentTime(t)

SeekSpec == Init /\ [][SeekNext]_vars

(***************************************************************************)
(* The encoder command as a function of the settings panel, for every      *)
(* preset and source size                                                  *)
(***************************************************************************)
PresetInit ==
  /\ zoomEffects = <<>>
  /\ NotEvaluating
  /\ NotBlending
  /\ ModuleInit
  /\ NotCapturing
  /\ videoSize \in VideoSizes
  /\ Mounted(Int2Rat(0))

\* const selectedQuality = qualityMap[exportSettings.quality]; const ffmpegCommand
\* = [...] for the settings as the panel shows them
BuildCommand ==
  /\ settings' = exportSettings
  /\ execArgs' = ffmpegCommand(exportSettings)
  /\ UNCHANGED <<runs, pc, totalFrames, loopI, raf1, raf2, captured, capRejected, frames,
                 blobPending, blobsDone, blobRejected, blobs, encLog, wroteFrames, failed>>
  /\ UNCHANGED <<pureVars, modalVars, playerVars, fsVars>>

PresetNext ==
  \/ \E q \in DOMAIN qualityMap : SetQuality(q)
  \/ \E f \in FpsChoices : SetFps(f)
  \/ \E b \in BOOLEAN : SetIncludeAudio(b)
  \/ BuildCommand

PresetSpec == PresetInit /\ [][PresetNext]_vars

(***************************************************************************)
(* A second click on Export while an invocation of exportVideo is running. *)
(* The button is disabled by the stage alone, and the stage becomes        *)
(* capturing only after the readiness check.  The second invocation is     *)
(* followed through its guards and its test frame up to its report of      *)
(* stage capturing; from there on it runs the steps of the first.          *)
(***************************************************************************)
\* the awaits of the readiness check at which the first invocation is parked
\* while the host handles events: the 'seeked' event of seekAndWait(0) and the
\* animation frames of the test captureFrame
ParkedInCheck == pc \in {"testSeekWait", "testCapture"}

\* onClick={exportVideo} while an invocation is parked in its readiness check:
\* the guards and the call of seekAndWait(0), which run in one task
ClickExportAgain(playerAvailable) ==
  /\ ExportEnabled
  /\ ~closed
  /\ ParkedInCheck
  /\ pc2 = "idle"
  /\ IF ~playerAvailable
     THEN /\ exportProgress' = Report("error", 0, "VideoPlayer not available", "player")
          /\ pc2' = "idle"
          /\ UNCHANGED seekTarget
     ELSE IF SeekRejects(isVideoReady)
     THEN /\ exportProgress' = Report("error", 0, "Frame capture test failed", "seek")
          /\ pc2' = "idle"
          /\ UNCHANGED seekTarget
     ELSE /\ seekTarget' = Int2Rat(0)
          /\ pc2' = "testSeekWait"
          /\ UNCHANGED exportProgress
  /\ UNCHANGED <<isVideoReady, videoTime, videoSize>>
  /\ UNCHANGED <<ModalRest, runVars, fsVars, calcVars>>

\* the second invocation's test frame and its width/height check
TestCaptureAgain(outcome) ==
  /\ pc2 = "testCapture"
  /\ IF outcome = "ok"
     THEN /\ pc2' = "enterCapturing"
          /\ UNCHANGED exportProgress
     ELSE /\ exportProgress' =
               Report("error", 0, "Frame capture test failed",
                      IF outcome = "zero" THEN "frame" ELSE "capture")
          /\ pc2' = "idle"
  /\ UNCHANGED <<ModalRest, playerVars, runVars, fsVars, calcVars>>

\* the second invocation's setExportProgress({ stage: 'capturing', progress: 0 })
EnterCapturingAgain ==
  /\ pc2 = "enterCapturing"
  /\ exportProgress' = Report("capturing", 0, "Preparing video export...", "")
  /\ pc2' = "captureLoop"
  /\ UNCHANGED <<ModalRest, playerVars, runVars, fsVars, calcVars>>

ReentryNext ==
  \/ InitFFmpeg
  \/ FFmpegLoaded
  \/ FFmpegLoadFailed
  \/ LoadedMetadata
  \/ \E a \in BOOLEAN : ClickExport(a)
  \/ TestSeek
  \/ Seeked
  \/ \E o \in {"ok", "zero", "throw"} : TestCapture(o)
  \/ EnterCapturing
  \/ \E a \in BOOLEAN : ClickExportAgain(a)
  \/ \E o \in {"ok", "zero", "throw"} : TestCaptureAgain(o)
  \/ EnterCapturingAgain

ReentrySpec == Init /\ [][ReentryNext]_vars

(***************************************************************************)
(* The preload module: preloadFfmpeg and terminateFfmpeg over the module's *)
(* three variables.  FFmpeg objects are numbered in the order of their     *)
(* construction, and a load promise has the number of the object it loads. *)
(* The callbacks of a load run when the environment settles instance.load. *)
(***************************************************************************)
\* preloadFfmpeg calls followed
MaxCalls == 3
\* terminateFfmpeg calls followed
MaxTerminates == 1

\* a preloadFfmpeg that never reuses the load in flight
InFlight_Ignored(promise) == FALSE

\* if (loadPromise) return loadPromise
InFlight(promise) == promise # 0

\* a load chain without its finally callback
Finally_Kept(promise) == promise

\* .finally(() => { loadPromise = null; })
Finally(promise) == 0

\* the promise a preloadFfmpeg call returned: the load it follows (0 if it
\* returned the loaded object at once), how it settled and with which object
Caller(load, status, instance) == [load |-> load, status |-> status, instance |-> instance]

\* the callers waiting on the load k get its outcome
Settle(k, status, instance) ==
  [c \in DOMAIN callers |->
     IF callers[c].load = k /\ callers[c].status = "pending"
     THEN Caller(k, status, instance)
     ELSE callers[c]]

\* preloadFfmpeg(): return the loaded object, or the load in flight, or
\* construct an FFmpeg object and start its load
PreloadCall ==
  /\ Len(callers) < MaxCalls
  /\ afterTerminate' = FALSE
  /\ IF loaded /\ ffmpegInstance # 0
     THEN /\ callers' = Append(callers, Caller(0, "resolved", ffmpegInstance))
          /\ UNCHANGED <<loadPromise, loadState>>
     ELSE IF InFlight(loadPromise)
     THEN /\ callers' = Append(callers, Caller(loadPromise, "pending", 0))
          /\ UNCHANGED <<loadPromise, loadState>>
     ELSE LET instance == Len(loadState) + 1
          IN  /\ loadState' = Append(loadState, "loading")
              /\ loadPromise' = instance
              /\ callers' = Append(callers, Caller(instance, "pending", 0))
  /\ UNCHANGED <<ffmpegInstance, loaded, terminates>>
  /\ UNCHANGED <<evalVars, captureVars, modalVars, playerVars, runVars, fsVars, pc2,
                 blendVars>>

\* instance.load() fulfilled: .then(() => { ffmpegInstance = instance; loaded = true; ... })
LoadThen(k) ==
  /\ loadState[k] = "loading"
  /\ loadState' = [loadState EXCEPT ![k] = "fulfilled"]
  /\ ffmpegInstance' = k
  /\ loaded' = TRUE
  /\ UNCHANGED <<loadPromise, callers, terminates, afterTerminate>>
  /\ UNCHANGED <<evalVars, captureVars, modalVars, playerVars, runVars, fsVars, pc2,
                 blendVars>>

\* the finally callback after the then callback; the chain resolves with the object
LoadFinally(k) ==
  /\ loadState[k] = "fulfilled"
  /\ loadState' = [loadState EXCEPT ![k] = "resolved"]
  /\ loadPromise' = Finally(loadPromise)
  /\ callers' = Settle(k, "resolved", k)
  /\ UNCHANGED <<ffmpegInstance, loaded, terminates, afterTerminate>>
  /\ UNCHANGED <<evalVars, captureVars, modalVars, playerVars, runVars, fsVars, pc2,
                 blendVars>>

\* instance.load() rejected: the then callback is skipped, the finally callback
\* runs and the chain rejects
LoadFailed(k) ==
  /\ loadState[k] = "loading"
  /\ loadState' = [loadState EXCEPT ![k] = "rejected"]
  /\ loadPromise' = Finally(loadPromise)
  /\ callers' = Settle(k, "rejected", 0)
  /\ UNCHANGED <<ffmpegInstance, loaded, terminates, afterTerminate>>
  /\ UNCHANGED <<evalVars, captureVars, modalVars, playerVars, runVars, fsVars, pc2,
                 blendVars>>

\* terminateFfmpeg(): ffmpegInstance?.terminate() on the object held, if any,
\* then the three variables are reset.  A load in flight belongs to an object the
\* module does not hold yet; it is neither terminated nor cancelled.
TerminateFfmpeg ==
  /\ terminates < MaxTerminates
  /\ terminates' = terminates + 1
  /\ ffmpegInstance' = 0
  /\ loaded' = FALSE
  /\ loadPromise' = 0
  /\ afterTerminate' = TRUE
  /\ UNCHANGED <<loadState, callers>>
  /\ UNCHANGED <<evalVars, captureVars, modalVars, playerVars, runVars, fsVars, pc2,
                 blendVars>>

PreloadInit ==
  /\ zoomEffects = <<>>
  /\ NotEvaluating
  /\ NotBlending
  /\ ModuleInit
  /\ NotCapturing
  /\ videoSize = SourceSize
  /\ Mounted(Int2Rat(0))

PreloadNext ==
  \/ PreloadCall
  \/ \E k \in 1..Len(loadState) : LoadThen(k)
  \/ \E k \in 1..Len(loadState) : LoadFinally(k)
  \/ \E k \in 1..Len(loadState) : LoadFailed(k)
  \/ TerminateFfmpeg

PreloadSpec == PreloadInit /\ [][PreloadNext]_vars

(***************************************************************************)
(* One call of lerp, in both revisions of the function                     *)
(***************************************************************************)
\* endpoints of a blend: coordinates in [0,100] and scales in [1,5]
BlendEnds == { Int2Rat(0), Int2Rat(1), Rat(3, 2), Int2Rat(5), Int2Rat(50), Int2Rat(100) }

\* fractions of a blend are multiples of 1/BlendDen in [0,1]
BlendDen == 4
BlendFractions == { Rat(n, BlendDen) : n \in 0..BlendDen }

BlendInit ==
  /\ zoomEffects = <<>>
  /\ NotEvaluating
  /\ blendA \in BlendEnds
  /\ blendB \in BlendEnds
  /\ NoBlendCall
  /\ ModuleInit
  /\ NotCapturing
  /\ videoSize = SourceSize
  /\ Mounted(Int2Rat(0))

\* lerp(a, b, t) as each revision computes it
Blend(t) ==
  /\ blendCalls = 0
  /\ blendCalls' = blendCalls + 1
  /\ blendT' = t
  /\ blendLinear' = lerp(blendA, blendB, t)
  /\ blendCubic' = lerpCubic(blendA, blendB, t)
  /\ UNCHANGED <<blendA, blendB>>
  /\ UNCHANGED <<evalVars, captureVars, modalVars, playerVars, runVars, fsVars, pc2,
                 preloadVars>>

BlendNext == \E t \in BlendFractions : Blend(t)

BlendSpec == BlendInit /\ [][BlendNext]_vars

(***************************************************************************)
(* Properties of the evaluator, checked under EvalSpec                     *)
(***************************************************************************)
Evaluated == evalCalls = 1

InInterior(t, k) ==
  /\ RLe(RAdd(k.startTime, transitionDuration), t)
  /\ RLe(t, RSub(k.endTime, transitionDuration))

\* t lies strictly inside that interval
StrictlyInInterior(t, k) ==
  /\ RLt(RAdd(k.startTime, transitionDuration), t)
  /\ RLt(t, RSub(k.endTime, transitionDuration))

\* no two keyframes of the list share more than an end point
NonOverlapping(zooms) ==
  \A i, j \in 1..Len(zooms) :
    i # j => \/ RLe(zooms[i].endTime, zooms[j].startTime)
             \/ RLe(zooms[j].endTime, zooms[i].startTime)

C6_EmptyListDefault ==
  (Evaluated /\ Len(zoomsBefore) = 0) =>
    XYS(previewZoom) = <<Int2Rat(50), Int2Rat(50), Int2Rat(1)>>

\* an evaluation of the empty list at a negative time
C6_Witness ==
  /\ Evaluated
  /\ Len(zoomsBefore) = 0
  /\ RLt(evalTime, Int2Rat(0))
  /\ previewZoom.id = <<"default">>

Reporting ==
  pc \notin {"idle", "testSeek", "testSeekWait", "testCapture", "enterCapturing"}

\* the last invocation has returned
RunOver == runs > 0 /\ pc = "idle"

\* C2: every frame captured for a sample was drawn while the video source
\* presented that sample's time (the pipeline seeks to i * sampleInterval and
\* waits for the seek to complete before it composites sample i).
C2_CapturedAtSampleTime ==
  \A k \in 1..Len(captured) : captured[k].presented = captured[k].time

\* C3: within a run the reported progress never decreases from one report to
\* the next, reports caused by encoder progress events included, and a report
\* of stage complete carries progress 100; the report that ends the run in
\* stage error is left out of the comparison.
C3_ProgressNeverDecreases ==
  [][ /\ (Reporting /\ exportProgress'.stage # "error")
         => exportProgress'.progress >= exportProgress.progress
      /\ exportProgress'.stage = "complete" => exportProgress'.progress = 100 ]_vars

StageOrder ==
  { <<"initializing", "capturing">>, <<"capturing", "processing">>,
    <<"processing", "encoding">>, <<"encoding", "complete">> }

\* C4: the reported stage changes only one step along initializing ->
\* capturing -> processing -> encoding -> complete, or to error, and it never
\* changes once it is error or complete.
C4_StageMachine ==
  [][ exportProgress'.stage # exportProgress.stage
      => /\ exportProgress.stage \notin {"error", "complete"}
         /\ \/ exportProgress'.stage = "error"
            \/ <<exportProgress.stage, exportProgress'.stage>> \in StageOrder ]_vars

\* C8: a run in which a seek, a capture, a conversion, an encoder write, the
\* encoder execution or the read-back failed is over only in stage error with
\* a message, and a run in stage complete had no failure.
C8_FailureEndsInError ==
  (RunOver /\ failed # "")
  => exportProgress.stage = "error" /\ exportProgress.error # ""

ExecCalls == { k \in 1..Len(encLog) : encLog[k].op = "exec" }

\* what the encoder was asked to do in a run that wrote n frames
CompleteLog(n, audio) ==
  LET a == IF audio THEN 1 ELSE 0
  IN  /\ Len(encLog) = n + a + 3
      /\ \A k \in 1..n : encLog[k] = LogEntry("writeFile", k - 1)
      /\ audio => encLog[n + 1].op = "writeAudio"
      /\ encLog[n + a + 1].op = "exec"
      /\ encLog[n + a + 2].op = "execReturn"
      /\ encLog[n + a + 3].op = "readFile"

\* C9: a run executes the encoder at most once; in a run that reached complete
\* the encoder was executed exactly once, after the write of every frame
\* payload and of the audio input when audio is included, and the output was
\* read back after the execution returned.
C9_ExecOnceAfterWrites ==
  /\ Cardinality(ExecCalls) <= 1
  /\ (RunOver /\ exportProgress.stage = "complete")
     => /\ Len(blobs) = totalFrames
        /\ CompleteLog(totalFrames, settings.includeAudio)

\* a run with two capture batches and the audio input reached complete
C9_Witness ==
  /\ RunOver
  /\ exportProgress.stage = "complete"
  /\ settings.includeAudio
  /\ totalFrames > batchSize
  /\ Cardinality(ExecCalls) = 1

\* C10: the number of samples is floor(D * fps) for the source duration D
\* clamped to the ceiling and the selected frame rate fps, and sample i is
\* taken at time i / fps.
C10_SelectedFpsSampleCount ==
  Reporting
  => /\ totalFrames = RFloor(RMul(RMin(duration, Int2Rat(DurationCeiling)),
                                  Int2Rat(settings.fps)))
     /\ \A k \in 1..Len(captured) :
          captured[k].time = Rat(captured[k].sample, settings.fps)

(***************************************************************************)
(* Properties of the encoder command, checked under PresetSpec             *)
(***************************************************************************)
\* the preset table of the specification: preset -> <<output height, CRF>>
PresetTable(q) ==
  CASE q = "720p"  -> <<720, 26>>
    [] q = "1080p" -> <<1080, 25>>
    [] q = "1440p" -> <<1440, 24>>
    [] q = "2160p" -> <<2160, 23>>

\* C11: the output height and the CRF of the encoder command are those of the
\* table for the selected preset, 720p -> (720, 26), 1080p -> (1080, 25),
\* 1440p -> (1440, 24), 2160p -> (2160, 23), whatever the source resolution.
C11_PresetTable ==
  execArgs # NoArgs
  => <<execArgs.height, execArgs.crf>> = PresetTable(settings.quality)

\* the command of the highest preset for the smallest source
C11_Witness ==
  /\ execArgs # NoArgs
  /\ settings.quality = "2160p"
  /\ videoSize = VideoSize(640, 480)
  /\ execArgs.height = 2160

(***************************************************************************)
(* Properties of the frame files, checked under Spec                       *)
(***************************************************************************)
\* a sorts before b in the order of their character codes
RECURSIVE LexLt(_, _)
LexLt(a, b) ==
  IF Len(b) = 0 THEN FALSE
  ELSE IF Len(a) = 0 THEN TRUE
  ELSE IF Head(a) # Head(b) THEN Head(a) < Head(b)
  ELSE LexLt(Tail(a), Tail(b))

\* C12: the frame payloads are written under names of one fixed width such that
\* the name of sample i sorts lexicographically before the name of sample j for
\* i < j; the k-th file written holds the frame of sample k - 1, and a run that
\* completes has written the names of the samples 0 .. sampleCount - 1.
C12_FrameNames ==
  /\ \A k \in 1..Len(wroteFrames) :
       /\ wroteFrames[k].sample = k - 1
       /\ Len(wroteFrames[k].name) = Len(wroteFrames[1].name)
       /\ \A l \in 1..(k - 1) : LexLt(wroteFrames[l].name, wroteFrames[k].name)
  /\ (RunOver /\ exportProgress.stage = "complete") => Len(wroteFrames) = totalFrames

\* a completed run that wrote frame numbers of one and of two digits
C12_Witness ==
  /\ RunOver
  /\ exportProgress.stage = "complete"
  /\ Len(wroteFrames) > 10
  /\ Len(wroteFrames) = totalFrames

(***************************************************************************)
(* Properties of the evaluator on the scenarios, checked under ScenarioSpec *)
(***************************************************************************)
DefaultXYS == <<Int2Rat(50), Int2Rat(50), Int2Rat(1)>>

\* every coordinate of the state s is at least as close to the default as to
\* the coordinate of the target
NearDefault(s, target) ==
  \A c \in 1..3 : RLe(RAbs(RSub(s[c], DefaultXYS[c])), RAbs(RSub(s[c], target[c])))

\* C13: for the single smooth keyframe from 2 s to 5 s with target (80, 20, 2)
\* the evaluator returns a state near the default at t = 2 (the start of the
\* ramp), exactly (80, 20, 2) at t = 3.5 and exactly (50, 50, 1) at t = 10.
C13_ScenarioA ==
  (Evaluated /\ zoomsBefore = ScenarioA) =>
    /\ evalTime = Int2Rat(2) => NearDefault(XYS(previewZoom), XYS(ScenarioA[1]))
    /\ evalTime = Rat(7, 2) => XYS(previewZoom) = XYS(ScenarioA[1])
    /\ evalTime = Int2Rat(10) => XYS(previewZoom) = DefaultXYS

\* the gap between the two keyframes of a sorted two-keyframe list
GapOf(zooms) == RSub(zooms[2].startTime, zooms[1].endTime)

InGap(t, zooms) == RLt(zooms[1].endTime, t) /\ RLt(t, zooms[2].startTime)

\* the state a proportional cross-fade over the whole gap has at time t
CrossFade(t, zooms) ==
  LET p == RDiv(RSub(t, zooms[1].endTime), GapOf(zooms))
  IN  <<lerp(zooms[1].x, zooms[2].x, p), lerp(zooms[1].y, zooms[2].y, p),
        lerp(zooms[1].scale, zooms[2].scale, p)>>

\* C14: for two keyframes separated by a gap of at most twice the transition
\* duration the evaluator returns, at every time inside the gap, the cross-fade
\* from the previous target to the next one in proportion to the position in
\* the gap (so it is monotonic in t), and never the default state.
C14_ShortGapCrossFade ==
  (/\ Evaluated
   /\ Len(zoomsBefore) = 2
   /\ RLe(GapOf(zoomsBefore), RMul(Int2Rat(2), transitionDuration))
   /\ InGap(evalTime, zoomsBefore))
  => /\ XYS(previewZoom) = CrossFade(evalTime, zoomsBefore)
     /\ previewZoom.id # <<"default">>

\* the largest change per second a blend between the default and a target of
\* the list makes in coordinate c
BlendSlope(zooms, c) ==
  LET d1 == RAbs(RSub(XYS(zooms[1])[c], DefaultXYS[c]))
      d2 == RAbs(RSub(XYS(zooms[2])[c], DefaultXYS[c]))
  IN  RDiv(RMax(d1, d2), transitionDuration)

TimeStep == Rat(1, ScenarioTimeDen)

\* C15: for two keyframes separated by a gap longer than twice the transition
\* duration the state has no discontinuity in the gap or at its ends: from one
\* instant in [end of the previous, start of the next) to the next instant,
\* every coordinate changes by at most the blend slope times the time step.
C15_LongGapContinuous ==
  (/\ Evaluated
   /\ Len(zoomsBefore) = 2
   /\ RLt(RMul(Int2Rat(2), transitionDuration), GapOf(zoomsBefore))
   /\ RLe(zoomsBefore[1].endTime, evalTime)
   /\ RLt(evalTime, zoomsBefore[2].startTime))
  => LET next == XYS(getInterpolatedZoom(RAdd(evalTime, TimeStep), zoomsBefore))
     IN  \A c \in 1..3 :
           RLe(RAbs(RSub(next[c], XYS(previewZoom)[c])),
               RMul(BlendSlope(zoomsBefore, c), TimeStep))

(***************************************************************************)
(* Properties of the capture batches, checked under Spec                   *)
(***************************************************************************)
\* the batch the capture loop puts sample j in
BatchOf(j) == j \div batchSize

\* the samples whose captureFrame call has begun and has not returned
InCapture == raf1 \o raf2

\* C16: capture batches run one after the other: the samples in capture at any
\* moment are of one batch, so no frame of batch k + 1 begins capture before
\* every frame of batch k has been captured.
C16_BatchesSequential ==
  \A a, b \in 1..Len(InCapture) : BatchOf(InCapture[a]) = BatchOf(InCapture[b])

\* C17: at every point of a run the pipeline holds at most one batch's worth
\* (batchSize = 15) of raw pixel buffers, the ImageData captureFrame returned.
C17_OneBatchResident ==
  Len(captured) <= batchSize /\ Len(frames) <= batchSize

(***************************************************************************)
(* Properties of the seeks, checked under SeekSpec                         *)
(***************************************************************************)
\* C18: a seek starts only when no seek is in flight on the source, and
\* seekAndWait(0) resolves only once the source presents time 0: a 'seeked'
\* event of another seek (the player's currentTime synchronisation) never
\* resolves it.
C18_SeekSignalsItsOwnTime ==
  [][ /\ (seekTarget' # seekTarget /\ seekTarget' # NoSeek) => seekTarget = NoSeek
      /\ (pc = "testSeekWait" /\ pc' = "testCapture") => videoTime' = Int2Rat(0) ]_vars

(***************************************************************************)
(* Properties of captureFrame, checked under CaptureSpec and under Spec    *)
(***************************************************************************)
\* C19: the frame captureFrame returns has the pixel width and height of the
\* source frame, videoWidth x videoHeight, for every source resolution.
C19_FrameHasSourceSize ==
  capCalls = 1
  => /\ capFrame.width = videoSize.videoWidth
     /\ capFrame.height = videoSize.videoHeight

\* C20: with zero keyframes and zero text overlays every composited frame is
\* the raw source frame of its sample: the frame the source presents at the
\* sample's time, at the source's size, drawn under the identity transform and
\* with nothing drawn over it.
C20_NoEffectsRawFrame ==
  (zoomEffects = <<>> /\ textOverlays = <<>>)
  => \A k \in 1..Len(captured) :
       /\ captured[k].transform = IdentityTransform
       /\ captured[k].texts = <<>>
       /\ captured[k].width = videoSize.videoWidth
       /\ captured[k].height = videoSize.videoHeight
       /\ captured[k].presented = captured[k].time

(***************************************************************************)
(* Properties of the evaluator's transitions                               *)
(***************************************************************************)
\* min(1.2, (k.endTime - k.startTime) / 2.5)
WindowOf(k) == RMin(Rat(6, 5), RDiv(RSub(k.endTime, k.startTime), Rat(5, 2)))

\* the linear blend from state a to state b at fraction p
BlendXYS(a, b, p) == <<lerp(a[1], b[1], p), lerp(a[2], b[2], p), lerp(a[3], b[3], p)>>

\* C23: the transition window the evaluator uses for a keyframe k is
\* min(1.2 s, (k.endTime - k.startTime) / 2.5): before the first keyframe the
\* state has left the default exactly at the times later than that window
\* before the keyframe's start.
C23_TransitionWindow ==
  (/\ Evaluated
   /\ Len(zoomsBefore) = 1
   /\ RLt(evalTime, zoomsBefore[1].startTime))
  => (XYS(previewZoom) # DefaultXYS
        <=> RLt(RSub(zoomsBefore[1].startTime, WindowOf(zoomsBefore[1])), evalTime))

\* C24: before the first keyframe the evaluator returns the linear blend from the
\* default to the first target for t within transitionDuration(first) of its
\* start and the default for any earlier t; after the last keyframe it returns
\* the linear blend from the last target to the default for t within that
\* keyframe's window after its end and the default for any later t.
C24_BlendBeforeFirstAfterLast ==
  (Evaluated /\ Len(zoomsBefore) > 0 /\ NonOverlapping(zoomsBefore))
  => LET sorted == SortByStart(zoomsBefore)
         first == sorted[1]
         lastZoom == sorted[Len(sorted)]
         blendStart == RSub(first.startTime, WindowOf(first))
         blendEnd == RAdd(lastZoom.endTime, WindowOf(lastZoom))
     IN  /\ RLt(evalTime, first.startTime) =>
              XYS(previewZoom) =
                IF RLe(blendStart, evalTime)
                THEN BlendXYS(DefaultXYS, XYS(first),
                              RDiv(RSub(evalTime, blendStart), WindowOf(first)))
                ELSE DefaultXYS
         /\ RLt(lastZoom.endTime, evalTime) =>
              XYS(previewZoom) =
                IF RLe(evalTime, blendEnd)
                THEN BlendXYS(XYS(lastZoom), DefaultXYS,
                              RDiv(RSub(evalTime, lastZoom.endTime), WindowOf(lastZoom)))
                ELSE DefaultXYS

\* the ids of the blended states the evaluator builds toward or away from the
\* keyframe k of the list zooms
BlendIdsOf(k, zooms) ==
  { <<"transition-to">> \o k.id, <<"transition-from">> \o k.id }
    \cup { <<"transition">> \o k.id \o <<"to">> \o zooms[j].id : j \in 1..Len(zooms) }
    \cup { <<"transition">> \o zooms[j].id \o <<"to">> \o k.id : j \in 1..Len(zooms) }

\* C25: for an instant keyframe k (of a list without overlaps) the evaluator
\* returns k's exact x, y, scale at every t in [k.startTime, k.endTime], and at no
\* time a blended state toward or away from k: the states it builds next to k are
\* the default or a keyframe's exact values.
C25_InstantNeverBlends ==
  (Evaluated /\ NonOverlapping(zoomsBefore))
  => \A i \in 1..Len(zoomsBefore) :
       zoomsBefore[i].transition = "instant" =>
         /\ (RLe(zoomsBefore[i].startTime, evalTime) /\ RLe(evalTime, zoomsBefore[i].endTime))
              => XYS(previewZoom) = XYS(zoomsBefore[i])
         /\ previewZoom.id \in BlendIdsOf(zoomsBefore[i], zoomsBefore)
              => XYS(previewZoom) \in
                   {DefaultXYS} \cup { XYS(zoomsBefore[j]) : j \in 1..Len(zoomsBefore) }

\* the keyframes of the list whose range covers t, as indices into the sorted list
Covering(t, sorted) ==
  { i \in 1..Len(sorted) : RLe(sorted[i].startTime, t) /\ RLe(t, sorted[i].endTime) }

\* C26: for a time covered by the ranges of more than one keyframe the evaluator
\* returns the values of the covering keyframe with the earliest startTime, ties
\* going to the keyframe earlier in the original order.
C26_EarliestStartWins ==
  Evaluated =>
    LET sorted == SortByStart(zoomsBefore)
        cover == Covering(evalTime, sorted)
    IN  Cardinality(cover) > 1 =>
          XYS(previewZoom) = XYS(sorted[CHOOSE i \in cover : \A j \in cover : i <= j])

(***************************************************************************)
(* Properties of the zoom transforms, checked under CaptureSpec            *)
(***************************************************************************)
\* where the transform tr draws the source point (px, py)
Apply(tr, px, py) == <<RAdd(RMul(tr.scale, px), tr.dx), RAdd(RMul(tr.scale, py), tr.dy)>>

\* the point of a width x height frame at (x%, y%)
PointAt(x, y, width, height) ==
  <<RMul(RDiv(x, Int2Rat(100)), Int2Rat(width)), RMul(RDiv(y, Int2Rat(100)), Int2Rat(height))>>

Captured == capCalls = 1 /\ Len(capZooms) = 1

\* C27: the compositor's zoom transform keeps the authored point fixed: for every
\* x, y in [0,100], scale in [1,5] and frame size, the source pixel at
\* (x% of the width, y% of the height) is drawn at the same position.
C27_PivotFixed ==
  Captured =>
    LET p == PointAt(capZooms[1].x, capZooms[1].y, capFrame.width, capFrame.height)
    IN  Apply(capFrame.transform, p[1], p[2]) = p

\* a capture of a scaled-down 3840x2160 source magnified five times about the
\* off-centre point (20%, 70%)
C27_Witness ==
  /\ Captured
  /\ videoSize = VideoSize(3840, 2160)
  /\ capZooms[1].scale = Int2Rat(5)
  /\ capZooms[1].x = Int2Rat(20)
  /\ capZooms[1].y = Int2Rat(70)
  /\ capFrame.transform # IdentityTransform

\* C28: the transform the live preview applies for a state (x, y, scale) and the
\* transform captureFrame applies for the same state place every source point
\* at the same relative position in the frame.
C28_PreviewEqualsCapture ==
  Captured => wrapperTransform = capFrame.transform

(***************************************************************************)
(* Properties of the text overlays of the export, checked under Spec       *)
(***************************************************************************)
\* the index of the overlay o in the textOverlays array
IndexOfText(o) == CHOOSE i \in 1..Len(textOverlays) : textOverlays[i].id = o.id

\* C29: for every sample, the text overlays passed to the compositor are exactly
\* the overlays with startTime <= sampleTime <= endTime, both ends inclusive, in
\* the order of the input array, and they are drawn in that order.
C29_TextsOfSample ==
  \A k \in 1..Len(captured) :
    LET texts == captured[k].texts
        time == SampleTime(captured[k].sample, settings.fps)
    IN  /\ \A i \in 1..Len(textOverlays) :
             (RLe(textOverlays[i].startTime, time) /\ RLe(time, textOverlays[i].endTime))
               <=> (\E n \in 1..Len(texts) : texts[n] = textOverlays[i])
        /\ \A n \in 1..Len(texts) : \E i \in 1..Len(textOverlays) : texts[n] = textOverlays[i]
        /\ \A n, l \in 1..Len(texts) : n < l => IndexOfText(texts[n]) < IndexOfText(texts[l])

\* the frame of the sample at 1/3 s, the last instant of the overlay "a", was
\* composited with both overlays, "b" first
C29_Witness ==
  \E k \in 1..Len(captured) :
    /\ captured[k].time = Rat(1, 3)
    /\ Len(captured[k].texts) = 2
    /\ captured[k].texts[1].id = <<"b">>
    /\ captured[k].texts[2].id = <<"a">>

(***************************************************************************)
(* Properties of the batch loops, checked under Spec                       *)
(***************************************************************************)
\* the states in which the invocation is parked at the timer of a batch loop and
\* the host runs its other tasks
Yielded == pc \in {"captureYield", "convertYield"}

\* C22: the pipeline yields to the host at least once per batch: every step that
\* starts a capture batch or a conversion batch leaves the invocation parked at
\* the loop's timer, so between the starts of two consecutive batches there is a
\* yield.
C22_YieldPerBatch ==
  [][ /\ Len(raf1') > Len(raf1) => pc' = "captureYield"
      /\ Len(blobPending') > Len(blobPending) => pc' = "convertYield" ]_vars

\* the second conversion batch of a run of two capture batches has started
C22_Witness ==
  /\ pc = "convertYield"
  /\ loopI = blobBatchSize
  /\ totalFrames > batchSize
  /\ Len(frames) = totalFrames

(***************************************************************************)
(* Properties of a retry, checked under Spec                               *)
(***************************************************************************)
\* every frame file the encoder reads was written by the running invocation
ReadsOwnFrames(files, run) ==
  \A k \in 1..Len(ImageSequence(files)) : ImageSequence(files)[k] = run

\* C21: after a run ended in error a retry reruns the whole pipeline from stage
\* initializing and resumes nothing of the failed run: the stage leaves error
\* only for initializing, the new invocation starts without captured frames and
\* payloads, and every frame file its encoder execution reads was written by it.
C21_RetryFromScratch ==
  [][ /\ (exportProgress.stage = "error" /\ exportProgress'.stage # "error")
           => exportProgress'.stage = "initializing"
      /\ runs' # runs => (captured' = <<>> /\ frames' = <<>> /\ blobs' = <<>>)
      /\ pc' = "execWait" => ReadsOwnFrames(fsFrames', runs') ]_vars

(***************************************************************************)
(* Properties of the reported progress, checked under ProgressSpec         *)
(***************************************************************************)
\* C30: in every state of a run the progress is within [0,100] and within the
\* band of its stage: at most 50 while capturing, between 50 and 75 while
\* processing, between 75 and 100 while encoding.
C30_ProgressInBand ==
  /\ exportProgress.progress >= 0
  /\ exportProgress.progress <= 100
  /\ exportProgress.stage = "capturing" => exportProgress.progress <= 50
  /\ exportProgress.stage = "processing" =>
       (exportProgress.progress >= 50 /\ exportProgress.progress <= 75)
  /\ exportProgress.stage = "encoding" =>
       (exportProgress.progress >= 75 /\ exportProgress.progress <= 100)

(***************************************************************************)
(* Properties of the encoder invocation, checked under Spec                *)
(***************************************************************************)
\* C31: the input frame rate passed to the encoder equals the rate at which the
\* samples were taken, for every fps setting, so that the encoded video spans
\* the duration of the sampled source: the frame written as number k is shown
\* by the encoder at k / framerate, the time at which it was sampled.
C31_EncoderRateIsSampleRate ==
  execArgs # NoArgs =>
    /\ execArgs.framerate = processingFps(settings.fps)
    /\ \A k \in 1..Len(captured) :
         Rat(captured[k].sample, execArgs.framerate) = captured[k].time

\* the encoder's execute of this invocation returned a nonzero exit status
ExecExitedNonzero ==
  \E k \in 1..Len(encLog) : encLog[k] = LogEntry("execReturn", 1)

\* C32: if the encoder's execute returns a nonzero exit status, the run ends in
\* stage error and does not reach complete.
C32_NonzeroExitEndsInError ==
  ExecExitedNonzero =>
    /\ exportProgress.stage # "complete"
    /\ RunOver => exportProgress.stage = "error"

(***************************************************************************)
(* Properties of the guards of exportVideo, checked under Spec             *)
(***************************************************************************)
\* the invocation has returned from one of its guards: stage error with a
\* message, no sample captured or requested, nothing written to the encoder's
\* file system and no call made on the encoder
GuardStopped ==
  /\ pc = "idle"
  /\ exportProgress.stage = "error"
  /\ exportProgress.message # ""
  /\ captured = <<>> /\ raf1 = <<>> /\ raf2 = <<>> /\ frames = <<>>
  /\ wroteFrames = <<>>
  /\ encLog = <<>>
  /\ execArgs = NoArgs

\* C33: if the encoder is not loaded, the video player is unavailable or not
\* ready, or the initial test frame has zero width or height (or cannot be
\* captured), exportVideo ends in stage error with a message and has captured
\* no sample, written no encoder input and not invoked the encoder.
C33_GuardFailureStopsRun ==
  [][ /\ (runs' # runs /\ pc' # "testSeek") => GuardStopped'
      /\ (pc = "testSeek" /\ ~isVideoReady /\ pc' # pc) => GuardStopped'
      /\ (pc = "testCapture" /\ pc' \notin {"testCapture", "enterCapturing"})
           => GuardStopped'
      /\ (failed' \in {"ffmpeg", "player", "seek", "frame"} /\ runs' = runs)
           => (pc' = "idle" /\ UNCHANGED <<captured, wroteFrames, encLog, execArgs, fsVars>>) ]_vars

\* an invocation was stopped by seekAndWait on a player that is not ready
C33_Witness ==
  /\ RunOver
  /\ failed = "seek"
  /\ ~isVideoReady
  /\ GuardStopped

(***************************************************************************)
(* Range of the evaluator, checked under EvalSpec                          *)
(***************************************************************************)
\* x and y within [0,100] and scale within [1,5]
InRange(z) ==
  /\ RLe(Int2Rat(0), z.x) /\ RLe(z.x, Int2Rat(100))
  /\ RLe(Int2Rat(0), z.y) /\ RLe(z.y, Int2Rat(100))
  /\ RLe(Int2Rat(1), z.scale) /\ RLe(z.scale, Int2Rat(5))

\* v lies between a and b, whichever of the two is larger
Between(v, a, b) == RLe(RMin(a, b), v) /\ RLe(v, RMax(a, b))

\* the x, y, scale of the keyframe with the given id in the list zooms
KeyframeXYS(id, zooms) == XYS(zooms[CHOOSE i \in 1..Len(zooms) : zooms[i].id = id])

\* the two endpoint states of the blended state z, read off its id; a state
\* that is no blend is its own pair of endpoints
EndpointsOf(z, zooms) ==
  CASE Head(z.id) = "transition-to" -> <<DefaultXYS, KeyframeXYS(Tail(z.id), zooms)>>
    [] Head(z.id) = "transition-from" -> <<KeyframeXYS(Tail(z.id), zooms), DefaultXYS>>
    [] Head(z.id) = "transition" ->
         <<KeyframeXYS(<<z.id[2]>>, zooms), KeyframeXYS(<<z.id[4]>>, zooms)>>
    [] OTHER -> <<XYS(z), XYS(z)>>

\* the returned state is a blend of two states
IsBlend(z) == Head(z.id) \in {"transition-to", "transition-from", "transition"}

\* C39: the evaluator is total and its output stays in range: for every t and
\* every keyframe list whose keyframes have x, y in [0,100] and scale in [1,5],
\* getInterpolatedZoom returns a state with x, y in [0,100] and scale in [1,5],
\* and every blended state lies, coordinate by coordinate, between its two
\* endpoint states.
C39_OutputInRange ==
  (Evaluated /\ \A i \in 1..Len(zoomsBefore) : InRange(zoomsBefore[i]))
  => /\ InRange(previewZoom)
     /\ LET ends == EndpointsOf(previewZoom, zoomsBefore)
        IN  \A c \in 1..3 : Between(XYS(previewZoom)[c], ends[1][c], ends[2][c])

\* a cross-fade evaluated at a time the next keyframe already covers: the two
\* keyframes overlap, the progress is clamped, and the state is the first
\* keyframe's
C39_Witness ==
  /\ Evaluated
  /\ Len(zoomsBefore) = 2
  /\ Head(previewZoom.id) = "transition"
  /\ RLt(zoomsBefore[2].startTime, zoomsBefore[1].endTime)
  /\ RLt(zoomsBefore[1].startTime, zoomsBefore[2].startTime)
  /\ RLe(zoomsBefore[2].startTime, evalTime)
  /\ XYS(previewZoom) = XYS(zoomsBefore[1])

(***************************************************************************)
(* Properties of the blend curve, checked under BlendSpec                  *)
(***************************************************************************)
Blended == blendCalls = 1

\* C38: the blend curve maps [0,1] into [0,1] and preserves the endpoints:
\* lerp(a, b, 0) = a, lerp(a, b, 1) = b, and for every t in [0,1] lerp(a, b, t)
\* lies between a and b - for the lerp of each revision of the function.
C38_BlendCurve ==
  Blended =>
    \A v \in {blendLinear, blendCubic} :
      /\ blendT = Int2Rat(0) => v = blendA
      /\ blendT = Int2Rat(1) => v = blendB
      /\ Between(v, blendA, blendB)

(***************************************************************************)
(* Properties of a second click on Export, checked under ReentrySpec       *)
(***************************************************************************)
\* C34: at most one export run is in progress at a time: while one invocation
\* of exportVideo has not finished, its initial readiness check included, a
\* second invocation cannot start against the same source and encoder.
C34_OneRunAtATime == pc = "idle" \/ pc2 = "idle"

(***************************************************************************)
(* Properties of the preload module, checked under PreloadSpec             *)
(***************************************************************************)
\* the step is a preloadFfmpeg call
NewCall == Len(callers') = Len(callers) + 1

\* the promise the call of the step returned
Returned == callers'[Len(callers')]

\* the loads whose instance.load() has not settled, and those that succeeded
LoadsInFlight == { k \in 1..Len(loadState) : loadState[k] = "loading" }
LoadsDone == { k \in 1..Len(loadState) : loadState[k] \in {"fulfilled", "resolved"} }
LoadsFailed == { k \in 1..Len(loadState) : loadState[k] = "rejected" }

C36_TerminateHolds ==
  afterTerminate => (~loaded /\ ffmpegInstance = 0)

\* C37: if the encoder load fails, every caller waiting on that load gets the
\* failure, loaded stays false and the instance stays null, and the next
\* preloadFfmpeg call starts a fresh load instead of returning the failed one.
C37_FailedLoad ==
  [][ /\ \A k \in 1..Len(loadState) :
           (loadState[k] = "loading" /\ loadState'[k] = "rejected") =>
             /\ \A c \in 1..Len(callers) :
                  (callers[c].load = k /\ callers[c].status = "pending")
                    => callers'[c].status = "rejected"
             /\ loaded' = loaded /\ ffmpegInstance' = ffmpegInstance
             /\ LoadsDone = {} => (~loaded' /\ ffmpegInstance' = 0)
             /\ loadPromise' = 0
      /\ NewCall =>
           /\ Returned.status # "rejected"
           /\ Returned.load \notin LoadsFailed
           /\ (~loaded /\ LoadsInFlight = {}) =>
                (/\ Len(loadState') = Len(loadState) + 1
                 /\ Returned = Caller(Len(loadState'), "pending", 0)
                 /\ loadState'[Len(loadState')] = "loading") ]_vars

\* the load that two callers waited on failed, both got the failure, and the
\* third call started the load of a second FFmpeg object
C37_Witness ==
  /\ terminates = 0
  /\ Len(loadState) = 2
  /\ loadState[1] = "rejected"
  /\ ~loaded
  /\ ffmpegInstance = 0
  /\ Len(callers) = 3
  /\ callers[1] = Caller(1, "rejected", 0)
  /\ callers[2] = Caller(1, "rejected", 0)
  /\ callers[3].load = 2

=============================================================================
